---- MODULE Spec2Model ----
(***************************************************************************)
(* Model of the CCIP token-bridge demo: the EVM transfer executor, the fee *)
(* estimate / submit path of the bridge form, the message status tracker   *)
(* and the persisted transaction history.                                  *)
(***************************************************************************)
EXTENDS Integers, Sequences, FiniteSets, TLC

(***************************************************************************)
(* Bounds of the model                                                     *)
(***************************************************************************)
\* largest number of unsigned transactions the SDK returns for one transfer
MaxTxs == 4
\* largest amount the user types (in smallest units)
MaxAmount == 2
\* largest number of getFee calls in flight at once
MaxFeeInFlight == 2
\* number of message identifiers the protocol hands out
MaxIds == 2
\* largest value of pollCountRef that is followed
MaxPolls == 5
\* seconds followed after time 0 and after the polling timeout
MaxTicks == 0
\* identifiers handed to the history while it is filled
MaxHistIds == 52
\* pool lookups in flight at the same time
MaxPoolInFlight == 2
\* clock steps followed after a call of withTimeout
MaxElapsedSteps == 3
\* largest tokens, capacity and rate of a bucket, in base units
MaxUnits == 12
\* largest number of token decimals
MaxDecimals == 1

(***************************************************************************)
(* Program constants                                                       *)
(***************************************************************************)
\* TIMEOUT_DEFAULTS.MESSAGE_POLLING = 35 * 60 * 1000
MESSAGE_POLLING == 2100000
\* period of the elapsed-time interval of useMessageStatus
ELAPSED_INTERVAL == 1000
\* DEFAULT_POLLING_CONFIG
initialDelay == 10000
maxDelay == 30000
delayIncrement == 5000
\* budgets of the retry option of the status query
NOT_FOUND_RETRIES == 20
TRANSIENT_RETRIES == 10
OTHER_RETRIES == 3
\* retryDelay: Math.min(1000 * 2 ** attemptIndex, 30000)
RETRY_BASE == 1000
RETRY_CAP == 30000
\* localStorage: maximum number of transactions to store
MAX_TRANSACTIONS == 50
\* TIMEOUT_DEFAULTS.TOKEN_INFO, TIMEOUT_DEFAULTS.POOL_INFO
TOKEN_INFO == 15000
POOL_INFO == 30000

VARIABLES
  \* ---- useTransactionExecution.executeEVMTransfer ----
  ePc,          \* position of the async flow
  eN,           \* transactions.length
  eIdx,         \* index (1-based) of the approval being processed
  eSubmitted,   \* indexes handed to walletClient.sendTransaction, in order
  eOutstanding, \* submitted indexes whose receipt has not been obtained
  eReceipts,    \* indexes whose receipt has been obtained
  eSimulated,   \* publicClient.call pre-flight has been issued
  eSimError,    \* outcome of the pre-flight call: "none", "ok" or an error
  eCallbacks,   \* onStateChange / onTxHash / onMessageId calls, in order
  eError        \* what the flow threw ("none" while it has not thrown)

execVars == <<ePc, eN, eIdx, eSubmitted, eOutstanding, eReceipts,
              eSimulated, eSimError, eCallbacks, eError>>

VARIABLES
  \* ---- BridgeForm inputs and useFeeEstimate ----
  amount,               \* amount input, parsed (0: empty or not parseable)
  effectiveDestAddress, \* receiver: typed or auto-filled address
  fee,                  \* useFeeEstimate state: null or a quote
  feeLoading,           \* useFeeEstimate isLoading
  feeInFlight,          \* getFee calls not yet settled: the message of each
  isWalletConnected,    \* wallet connected and on the source network
  isLaneSupported,      \* useTokenPoolInfo isLaneSupported
  sent                  \* what handleSubmit last handed to executeTransfer

formVars == <<amount, effectiveDestAddress, fee, feeLoading, feeInFlight,
              isWalletConnected, isLaneSupported, sent>>

VARIABLES
  \* ---- BridgeForm session state ----
  bridgeState,    \* BridgeForm bridgeState
  sourceNetwork,  \* selected source network
  messageId,      \* BridgeForm messageId (0: null)
  flow,           \* last onStateChange of the executeTransfer call that is
                  \* running ("none": no call is running)
  idsUsed         \* message identifiers handed out so far

sessionVars == <<bridgeState, sourceNetwork, messageId, flow, idsUsed>>

VARIABLES
  \* ---- useMessageStatus ----
  isTimedOut,     \* state isTimedOut
  manualStop,     \* state manualStop
  startTime,      \* startTimeRef (-1: null)
  now,            \* Date.now()
  pollCount,      \* pollCountRef
  \* ---- the status query observed by useMessageStatus ----
  keysSeen,       \* source networks whose query exists for messageId
  qData,          \* data of the query of the current key
  qError,         \* error of the query of the current key
  qFetch,         \* the fetch of the current query and its retries
  lastData,       \* data of the last observed query that had data
  refetchDelay,   \* delay of the armed refetch interval (0: none armed)
  orphan,         \* an attempt of a query no longer observed is in flight
  terminalSeen,   \* a SUCCESS or FAILED snapshot was obtained for messageId
  lastCall        \* identifier getMessageById was called with in the last
                  \* step (0: the last step made no call)

trackState == <<isTimedOut, manualStop, startTime, now, pollCount, keysSeen,
                qData, qError, qFetch, lastData, refetchDelay, orphan,
                terminalSeen>>

trackVars == <<trackState, lastCall>>

VARIABLES
  \* ---- localStorage ----
  stored,         \* transactions of the 'ccip-bridge:transactions' item
  lastOp          \* the last operation on the history and its identifier

histVars == <<stored, lastOp>>

VARIABLES
  \* ---- TransactionHistoryProvider ----
  providerTransactions, \* state `transactions`: the list last read by refresh()
  msgStatus,      \* the status of each message on the network
  rPc,            \* pollPendingTransactions: "idle", "polling", "rejected"
  rPending,       \* identifiers of `pending`, read when the cycle started
  rIdx,           \* index (1-based) of the record being handled (0: none)
  rFailed,        \* identifiers whose handling failed in this cycle
  rLast           \* the record handled last and what happened

reconVars == <<providerTransactions, msgStatus, rPc, rPending, rIdx, rFailed, rLast>>

VARIABLES
  \* ---- useTokenPoolInfo ----
  poolInfo,       \* state poolInfo: null, or what was found and for which lane
  poolInFlight    \* fetchPoolInfo calls not yet settled: the lane of each

poolVars == <<poolInfo, poolInFlight>>

VARIABLES
  \* ---- withTimeout ----
  wPc,            \* the call: "idle", "racing", "returned", "rejected"
  wTimeoutMs,     \* argument timeoutMs
  wName,          \* argument operationName
  wElapsed,       \* time since the call
  wPromise,       \* the wrapped promise: pending, fulfilled or rejected
  wTimer,         \* the timeout: "none", "armed", "fired", "cleared"
  wResult         \* what the call resolved to

timeoutVars == <<wPc, wTimeoutMs, wName, wElapsed, wPromise, wTimer, wResult>>

VARIABLES
  \* ---- formatRateLimitBucket ----
  bucket,         \* argument bucket (RateLimitBucket | null)
  decimals,       \* argument decimals
  formatted       \* what the call returned

bucketVars == <<bucket, decimals, formatted>>

VARIABLES
  \* ---- ChainProvider ----
  cPhase,         \* the provider: "initial", "mounted", "unmounted"
  cStatus,        \* initializeChains of each run of the effect: "none", "running", "done"
  cPending,       \* per run: the networks whose createChainInstance has not settled
  cBuilt,         \* per run: the instances its createChainInstance calls returned
  constructed,    \* every chain instance built so far
  chainsRef,      \* chainsRef.current
  chains,         \* state chains
  destroyed,      \* the instances whose destroy was called
  returned        \* the instances getChain has returned

chainVars == <<cPhase, cStatus, cPending, cBuilt, constructed, chainsRef, chains,
               destroyed, returned>>

VARIABLES
  \* ---- buildCCIPMessage ----
  bArgs,          \* the arguments of the last call
  bResult,        \* what the last call came to
  bPrevArgs,      \* the arguments of the call before it
  bPrevResult     \* what that call came to

buildVars == <<bArgs, bResult, bPrevArgs, bPrevResult>>

VARIABLES
  \* ---- executeEVMTransfer, followed by the form ----
  eResim          \* what the re-simulation of a reverted send came to

resimVars == <<eResim>>

lateVars == <<chainVars, buildVars, resimVars>>

auxVars == <<reconVars, poolVars, timeoutVars, bucketVars, lateVars>>

vars == <<execVars, formVars, sessionVars, trackVars, histVars, auxVars>>

(***************************************************************************)
(* ccipErrors: CCIP_ERROR_MESSAGES, extractParsedError, parseEVMError      *)
(***************************************************************************)
\* error names that have an entry in CCIP_ERROR_MESSAGES (two of them)
KnownErrorNames == {"ChainNotAllowed", "RateLimitReached"}

\* names the SDK can decode: known ones, one without a mapping, and one
\* that does not start with an upper-case character
ErrorNames == KnownErrorNames \cup {"CustomError", "execution"}

\* potentialName[0] === potentialName[0].toUpperCase()
StartsUpper(name) == name # "execution"

\* the sentence CCIP_ERROR_MESSAGES maps a known name to
CCIP_ERROR_MESSAGES(name) == <<"mapped", name>>

\* One entry of the record returned by EVMChain.parse:
\*   kpre  - "revert." / "error." when the key starts with that prefix, "" else
\*   klast - key.split('.').pop()
\*   vname - the name captured by /^(\w+)\(/ on a string value, "none" when
\*           the value is not a string or does not match
\*   vtext - String(value), as a tuple of strings
Entry(kpre, klast, vname, vtext) ==
  [kpre |-> kpre, klast |-> klast, vname |-> vname, vtext |-> vtext]

\* result of parsing bare revert data:
\*   { error: "Name(args)", arg: value }
HexShape(name) ==
  << Entry("", "error", name, <<"sig", name>>),
     Entry("", "destChainSelector", "none", <<"arg">>) >>

\* result of parsing a full error object:
\*   { revert: "0x..", "revert.Name": ".." }
FullShape(name) ==
  << Entry("", "revert", "none", <<"0xdata">>),
     Entry("revert.", name, "none", <<"data", name>>) >>

\* An error thrown by publicClient.call, identified with what EVMChain.parse
\* makes of it: kind "undefined" when the SDK cannot decode it, kind "parsed"
\* with the entries of the record it returns otherwise
SimError(kind, parsed) == [kind |-> kind, parsed |-> parsed]

SimErrors ==
  {SimError("undefined", << >>), SimError("parsed", << >>)}
    \cup {SimError("parsed", HexShape(n)) : n \in ErrorNames}
    \cup {SimError("parsed", FullShape(n)) : n \in ErrorNames}

SimOk == SimError("ok", << >>)
SimNone == SimError("none", << >>)

\* the loop of extractParsedError over Object.entries(parsed), from entry i,
\* carrying errorName / errorInfo
RECURSIVE ScanEntries(_, _, _, _)
ScanEntries(parsed, i, errorName, errorInfo) ==
  IF i > Len(parsed) THEN <<errorName, errorInfo>>
  ELSE LET e == parsed[i] IN
    IF e.vname # "none" /\ StartsUpper(e.vname)
    THEN <<e.vname, e.vtext>>                     \* break
    ELSE IF e.kpre \in {"revert.", "error."} /\ e.klast # "" /\ StartsUpper(e.klast)
         THEN ScanEntries(parsed, i + 1, e.klast, e.vtext)
         ELSE ScanEntries(parsed, i + 1, errorName, errorInfo)

extractParsedError(parsed) ==
  LET r == ScanEntries(parsed, 1, "Unknown", << >>)
      errorName == r[1]
      errorInfo == r[2]
  IN [errorName |-> errorName,
      userMessage |->
        IF errorName \in KnownErrorNames THEN CCIP_ERROR_MESSAGES(errorName)
        ELSE IF errorInfo # << >> THEN <<"failed">> \o errorInfo
        ELSE <<"failed", errorName>>]

\* parseEVMError(error): errorName "undefined" stands for the undefined
\* returned when the SDK cannot decode the error
parseEVMError(error) ==
  IF error.kind # "parsed"
  THEN [errorName |-> "undefined", userMessage |-> << >>]
  ELSE extractParsedError(error.parsed)

(***************************************************************************)
(* useTransactionExecution.executeEVMTransfer                              *)
(***************************************************************************)
\* transactions.slice(0, -1): indexes of the approval transactions
approvalTxs(n) == IF n = 0 THEN {} ELSE 1..(n - 1)

EFresh ==
  /\ eN = 0 /\ eIdx = 0 /\ eSubmitted = << >> /\ eOutstanding = {}
  /\ eReceipts = {} /\ eSimulated = FALSE /\ eSimError = SimNone
  /\ eCallbacks = << >> /\ eError = <<"none">>

ExecInit == ePc = "idle" /\ EFresh

\* variant: the catch block re-throws simError without decoding it
PreflightThrownRaw(simError) == <<"raw">>

\* the message of the Error thrown after a failed pre-flight simulation:
\* parsedError.userMessage when parseEVMError decodes it, else simError itself
PreflightThrown(simError) ==
  LET parsedError == parseEVMError(simError)
  IN IF parsedError.errorName # "undefined" THEN parsedError.userMessage
     ELSE <<"raw">>

\* revertReason after the re-simulation of a reverted send transaction
RevertReasonRethrown(simError) ==
  IF simError.kind = "ok" THEN <<"Transaction reverted">> ELSE <<"raw">>

RevertReason(simError) ==
  LET parsedError == parseEVMError(simError)
  IN IF simError.kind = "ok" THEN <<"Transaction reverted">>
     ELSE IF parsedError.errorName # "undefined" THEN parsedError.userMessage
     ELSE <<"Transaction reverted", "raw">>

\* entry: the wallet guard, then the call of generateUnsignedSendMessage
EStart(connected) ==
  /\ ePc = "idle"
  /\ IF connected
     THEN ePc' = "generate" /\ eError' = eError
     ELSE ePc' = "thrown" /\ eError' = <<"EVM wallet not connected">>
  /\ UNCHANGED <<eN, eIdx, eSubmitted, eOutstanding, eReceipts, eSimulated,
                 eSimError, eCallbacks>>

\* generateUnsignedSendMessage resolves with n transactions or rejects; with
\* approvals the loop starts (onStateChange('approving'), sendTransaction),
\* without it the flow goes on to onStateChange('sending') and the pre-flight
\* publicClient.call (with an empty list sendTx is undefined and building
\* the call throws inside the try block)
EGenerated(n, ok) ==
  /\ ePc = "generate"
  /\ IF ~ok
     THEN /\ ePc' = "thrown" /\ eError' = <<"raw">>
          /\ UNCHANGED <<eN, eIdx, eSubmitted, eOutstanding, eReceipts,
                         eSimulated, eSimError, eCallbacks>>
     ELSE /\ eN' = n
          /\ IF approvalTxs(n) # {}
             THEN /\ eCallbacks' = Append(eCallbacks, "approving")
                  /\ eIdx' = 1
                  /\ eSubmitted' = Append(eSubmitted, 1)
                  /\ eOutstanding' = {1}
                  /\ ePc' = "approveSend"
                  /\ UNCHANGED <<eReceipts, eSimulated, eSimError, eError>>
             ELSE /\ eCallbacks' = Append(eCallbacks, "sending")
                  /\ IF n = 0
                     THEN /\ eSimError' = SimError("undefined", << >>)
                          /\ ePc' = "thrown"
                          /\ eError' = PreflightThrown(SimError("undefined", << >>))
                          /\ UNCHANGED eSimulated
                     ELSE /\ ePc' = "simulate"
                          /\ eSimulated' = TRUE
                          /\ UNCHANGED <<eSimError, eError>>
                  /\ UNCHANGED <<eIdx, eSubmitted, eOutstanding, eReceipts>>

\* variant: the receipt of an approval is not awaited before the loop goes on
EApprovalHashNoWait(ok) ==
  /\ ePc = "approveSend"
  /\ IF ~ok
     THEN /\ ePc' = "thrown" /\ eError' = <<"raw">>
          /\ eOutstanding' = eOutstanding \ {eIdx}
          /\ UNCHANGED <<eIdx, eSubmitted, eSimulated, eCallbacks>>
     ELSE /\ UNCHANGED eError
          /\ IF eIdx + 1 \in approvalTxs(eN)
             THEN /\ eCallbacks' = Append(eCallbacks, "approving")
                  /\ eIdx' = eIdx + 1
                  /\ eSubmitted' = Append(eSubmitted, eIdx + 1)
                  /\ eOutstanding' = eOutstanding \cup {eIdx + 1}
                  /\ ePc' = "approveSend"
                  /\ UNCHANGED eSimulated
             ELSE /\ eCallbacks' = Append(eCallbacks, "sending")
                  /\ ePc' = "simulate"
                  /\ eSimulated' = TRUE
                  /\ UNCHANGED <<eIdx, eSubmitted, eOutstanding>>
  /\ UNCHANGED <<eN, eReceipts, eSimError>>

\* walletClient.sendTransaction of approval eIdx resolves with a hash (then
\* waitForTransactionReceipt is called) or rejects
EApprovalHash(ok) ==
  /\ ePc = "approveSend"
  /\ IF ok
     THEN ePc' = "approveWait" /\ UNCHANGED <<eError, eOutstanding>>
     ELSE ePc' = "thrown" /\ eError' = <<"raw">> /\ eOutstanding' = eOutstanding \ {eIdx}
  /\ UNCHANGED <<eN, eIdx, eSubmitted, eReceipts, eSimulated, eSimError,
                 eCallbacks>>

\* waitForTransactionReceipt of approval eIdx resolves (the loop goes on to
\* the next approval, or leaves for the send transaction) or rejects
EApprovalReceipt(ok) ==
  /\ ePc = "approveWait"
  /\ IF ~ok
     THEN /\ ePc' = "thrown" /\ eError' = <<"raw">>
          /\ UNCHANGED <<eN, eIdx, eSubmitted, eOutstanding, eReceipts,
                         eSimulated, eSimError, eCallbacks>>
     ELSE /\ eReceipts' = eReceipts \cup {eIdx}
          /\ IF eIdx + 1 \in approvalTxs(eN)
             THEN /\ eCallbacks' = Append(eCallbacks, "approving")
                  /\ eIdx' = eIdx + 1
                  /\ eSubmitted' = Append(eSubmitted, eIdx + 1)
                  /\ eOutstanding' = (eOutstanding \ {eIdx}) \cup {eIdx + 1}
                  /\ ePc' = "approveSend"
                  /\ UNCHANGED eSimulated
             ELSE /\ eCallbacks' = Append(eCallbacks, "sending")
                  /\ eOutstanding' = eOutstanding \ {eIdx}
                  /\ ePc' = "simulate"
                  /\ eSimulated' = TRUE
                  /\ UNCHANGED <<eIdx, eSubmitted>>
          /\ UNCHANGED <<eN, eSimError, eError>>

\* the pre-flight publicClient.call resolves ("ok": the send transaction goes
\* to walletClient.sendTransaction) or rejects with simError (catch block:
\* parseEVMError, throw)
ESimulated(simError) ==
  /\ ePc = "simulate"
  /\ eSimError' = simError
  /\ IF simError.kind = "ok"
     THEN /\ eSubmitted' = Append(eSubmitted, eN)
          /\ eOutstanding' = eOutstanding \cup {eN}
          /\ ePc' = "sendSend"
          /\ UNCHANGED eError
     ELSE /\ ePc' = "thrown"
          /\ eError' = PreflightThrown(simError)
          /\ UNCHANGED <<eSubmitted, eOutstanding>>
  /\ UNCHANGED <<eN, eIdx, eReceipts, eSimulated, eCallbacks>>

\* variant: 'confirming' is reported before the hash
ESendHashConfirmingFirst(ok) ==
  /\ ePc = "sendSend"
  /\ IF ok
     THEN /\ eCallbacks' = eCallbacks \o <<"confirming", "txhash">>
          /\ ePc' = "sendWait"
          /\ UNCHANGED <<eError, eOutstanding>>
     ELSE /\ ePc' = "thrown" /\ eError' = <<"raw">>
          /\ eOutstanding' = eOutstanding \ {eN}
          /\ UNCHANGED eCallbacks
  /\ UNCHANGED <<eN, eIdx, eSubmitted, eReceipts, eSimulated, eSimError>>

\* walletClient.sendTransaction of the send transaction resolves with
\* sendHash (onTxHash, onStateChange('confirming'), waitForTransactionReceipt)
\* or rejects
ESendHash(ok) ==
  /\ ePc = "sendSend"
  /\ IF ok
     THEN /\ eCallbacks' = eCallbacks \o <<"txhash", "confirming">>
          /\ ePc' = "sendWait"
          /\ UNCHANGED <<eError, eOutstanding>>
     ELSE /\ ePc' = "thrown" /\ eError' = <<"raw">>
          /\ eOutstanding' = eOutstanding \ {eN}
          /\ UNCHANGED eCallbacks
  /\ UNCHANGED <<eN, eIdx, eSubmitted, eReceipts, eSimulated, eSimError>>

\* the receipt of the send transaction: "success" (onStateChange('tracking'),
\* getMessagesInTx), "reverted" (re-simulation at receipt.blockNumber), or
\* waitForTransactionReceipt rejects ("throws")
ESendReceipt(status) ==
  /\ ePc = "sendWait"
  /\ IF status = "throws"
     THEN /\ ePc' = "thrown" /\ eError' = <<"raw">>
          /\ UNCHANGED <<eReceipts, eOutstanding, eCallbacks>>
     ELSE /\ eReceipts' = eReceipts \cup {eN}
          /\ eOutstanding' = eOutstanding \ {eN}
          /\ UNCHANGED eError
          /\ IF status = "reverted"
             THEN ePc' = "resimulate" /\ UNCHANGED eCallbacks
             ELSE ePc' = "extract" /\ eCallbacks' = Append(eCallbacks, "tracking")
  /\ UNCHANGED <<eN, eIdx, eSubmitted, eSimulated, eSimError>>

\* the re-simulation of a reverted send transaction returns; the flow throws
\* new Error(revertReason) in every case
EResimulated(simError) ==
  /\ ePc = "resimulate"
  /\ ePc' = "thrown"
  /\ eError' = RevertReason(simError)
  /\ UNCHANGED <<eN, eIdx, eSubmitted, eOutstanding, eReceipts, eSimulated,
                 eSimError, eCallbacks>>

\* getMessagesInTx resolves with the messages of the transaction (hasMsg:
\* messages[0] exists and has a messageId) or rejects
EExtracted(ok, hasMsg) ==
  /\ ePc = "extract"
  /\ IF ~ok
     THEN ePc' = "thrown" /\ eError' = <<"raw">> /\ UNCHANGED eCallbacks
     ELSE /\ ePc' = "done"
          /\ eCallbacks' = IF hasMsg THEN Append(eCallbacks, "msgid") ELSE eCallbacks
          /\ UNCHANGED eError
  /\ UNCHANGED <<eN, eIdx, eSubmitted, eOutstanding, eReceipts, eSimulated,
                 eSimError>>

\* the promise has settled; the next call of executeEVMTransfer starts afresh
ESettled ==
  /\ ePc \in {"done", "thrown"}
  /\ ePc' = "idle"
  /\ eN' = 0 /\ eIdx' = 0 /\ eSubmitted' = << >> /\ eOutstanding' = {}
  /\ eReceipts' = {} /\ eSimulated' = FALSE /\ eSimError' = SimNone
  /\ eCallbacks' = << >> /\ eError' = <<"none">>

(***************************************************************************)
(* useTransactionExecution: executeSolanaTransfer                          *)
(***************************************************************************)
\* what the catch block of executeSolanaTransfer throws: the userMessage of
\* the error parseSolanaError decoded, or the error itself
SolanaThrown(parsed) == IF parsed THEN <<"userMessage">> ELSE <<"raw">>

\* the catch block: the flow throws, nothing else changes
SFails(parsed) ==
  /\ ePc' = "solThrown"
  /\ eError' = SolanaThrown(parsed)
  /\ UNCHANGED eCallbacks

\* entry: the wallet guard, then the call of generateUnsignedSendMessage
SStart(connected) ==
  /\ ePc = "idle"
  /\ IF connected
     THEN ePc' = "solGenerate" /\ eError' = eError
     ELSE ePc' = "solThrown" /\ eError' = <<"Solana wallet not connected">>
  /\ UNCHANGED <<eN, eIdx, eSubmitted, eOutstanding, eReceipts, eSimulated,
                 eSimError, eCallbacks>>

\* generateUnsignedSendMessage resolves (onStateChange('sending'),
\* getLatestBlockhash) or rejects
SGenerated(ok, parsed) ==
  /\ ePc = "solGenerate"
  /\ IF ok
     THEN /\ eCallbacks' = Append(eCallbacks, "sending")
          /\ ePc' = "solBlockhash"
          /\ UNCHANGED eError
     ELSE SFails(parsed)
  /\ UNCHANGED <<eN, eIdx, eSubmitted, eOutstanding, eReceipts, eSimulated,
                 eSimError>>

\* getLatestBlockhash resolves (the transaction is built and handed to
\* sendTransaction) or it rejects, or building the transaction throws
SBlockhash(ok, parsed) ==
  /\ ePc = "solBlockhash"
  /\ IF ok
     THEN ePc' = "solSend" /\ UNCHANGED <<eError, eCallbacks>>
     ELSE SFails(parsed)
  /\ UNCHANGED <<eN, eIdx, eSubmitted, eOutstanding, eReceipts, eSimulated,
                 eSimError>>

\* sendTransaction resolves with the signature (onTxHash,
\* onStateChange('confirming'), confirmTransaction) or rejects
SSendHash(ok, parsed) ==
  /\ ePc = "solSend"
  /\ IF ok
     THEN /\ eCallbacks' = eCallbacks \o <<"txhash", "confirming">>
          /\ ePc' = "solConfirm"
          /\ UNCHANGED eError
     ELSE SFails(parsed)
  /\ UNCHANGED <<eN, eIdx, eSubmitted, eOutstanding, eReceipts, eSimulated,
                 eSimError>>

\* confirmTransaction resolves (onStateChange('tracking'), getTransaction)
\* or rejects
SConfirmed(ok, parsed) ==
  /\ ePc = "solConfirm"
  /\ IF ok
     THEN /\ eCallbacks' = Append(eCallbacks, "tracking")
          /\ ePc' = "solGetTx"
          /\ UNCHANGED eError
     ELSE SFails(parsed)
  /\ UNCHANGED <<eN, eIdx, eSubmitted, eOutstanding, eReceipts, eSimulated,
                 eSimError>>

\* getTransaction resolves (getMessagesInTx is called) or rejects
SGotTransaction(ok, parsed) ==
  /\ ePc = "solGetTx"
  /\ IF ok
     THEN ePc' = "solExtract" /\ UNCHANGED <<eError, eCallbacks>>
     ELSE SFails(parsed)
  /\ UNCHANGED <<eN, eIdx, eSubmitted, eOutstanding, eReceipts, eSimulated,
                 eSimError>>

\* getMessagesInTx resolves with the messages of the transaction (hasMsg:
\* messages[0] exists and has a messageId) or rejects
SExtracted(ok, hasMsg, parsed) ==
  /\ ePc = "solExtract"
  /\ IF ok
     THEN /\ ePc' = "solDone"
          /\ eCallbacks' = IF hasMsg THEN Append(eCallbacks, "msgid") ELSE eCallbacks
          /\ UNCHANGED eError
     ELSE SFails(parsed)
  /\ UNCHANGED <<eN, eIdx, eSubmitted, eOutstanding, eReceipts, eSimulated,
                 eSimError>>

\* the promise has settled; the next call starts afresh
SSettled ==
  /\ ePc \in {"solDone", "solThrown"}
  /\ ePc' = "idle"
  /\ eN' = 0 /\ eIdx' = 0 /\ eSubmitted' = << >> /\ eOutstanding' = {}
  /\ eReceipts' = {} /\ eSimulated' = FALSE /\ eSimError' = SimNone
  /\ eCallbacks' = << >> /\ eError' = <<"none">>

SimOutcomes == {SimOk} \cup SimErrors

ExecNext ==
  \/ \E connected \in BOOLEAN : EStart(connected)
  \/ \E n \in 0..MaxTxs, ok \in BOOLEAN : EGenerated(n, ok)
  \/ \E ok \in BOOLEAN : EApprovalHash(ok)
  \/ \E ok \in BOOLEAN : EApprovalReceipt(ok)
  \/ \E e \in SimOutcomes : ESimulated(e)
  \/ \E ok \in BOOLEAN : ESendHash(ok)
  \/ \E st \in {"success", "reverted", "throws"} : ESendReceipt(st)
  \/ \E e \in SimOutcomes : EResimulated(e)
  \/ \E ok \in BOOLEAN, hasMsg \in BOOLEAN : EExtracted(ok, hasMsg)
  \/ ESettled
  \/ \E connected \in BOOLEAN : SStart(connected)
  \/ \E ok \in BOOLEAN, parsed \in BOOLEAN : SGenerated(ok, parsed)
  \/ \E ok \in BOOLEAN, parsed \in BOOLEAN : SBlockhash(ok, parsed)
  \/ \E ok \in BOOLEAN, parsed \in BOOLEAN : SSendHash(ok, parsed)
  \/ \E ok \in BOOLEAN, parsed \in BOOLEAN : SConfirmed(ok, parsed)
  \/ \E ok \in BOOLEAN, parsed \in BOOLEAN : SGotTransaction(ok, parsed)
  \/ \E ok \in BOOLEAN, hasMsg \in BOOLEAN, parsed \in BOOLEAN :
       SExtracted(ok, hasMsg, parsed)
  \/ SSettled

(***************************************************************************)
(* useMessageStatus: status mapping, retry policy, polling interval        *)
(***************************************************************************)
\* values of the SDK MessageStatus
MessageStatus ==
  {"Unknown", "Sent", "SourceFinalized", "Committed", "Blessed", "Verifying",
   "Verified", "Success", "Failed"}

\* what message.metadata?.status can evaluate to: a MessageStatus, a value
\* the hook has no case for, or undefined ("absent")
MetadataStatuses == MessageStatus \cup {"Other", "absent"}

\* the statuses followed together with the session
SessionStatuses == {"Sent", "Success", "Failed"}

mapToDetailedStatus(status) ==
  CASE status = "Sent" -> "SENT"
    [] status = "SourceFinalized" -> "SOURCE_FINALIZED"
    [] status = "Committed" -> "COMMITTED"
    [] status = "Blessed" -> "BLESSED"
    [] status = "Verifying" -> "VERIFYING"
    [] status = "Verified" -> "VERIFIED"
    [] status = "Success" -> "SUCCESS"
    [] status = "Failed" -> "FAILED"
    [] OTHER -> "UNKNOWN"

mapToSimplifiedStateMerged(detailed) ==
  CASE detailed \in {"SENT", "SOURCE_FINALIZED", "COMMITTED"} -> "SENT"
    [] detailed \in {"BLESSED", "VERIFYING", "VERIFIED"} -> "COMMITTED"
    [] detailed = "SUCCESS" -> "SUCCESS"
    [] detailed = "FAILED" -> "FAILED"
    [] OTHER -> "UNKNOWN"

mapToSimplifiedState(detailed) ==
  CASE detailed \in {"SENT", "SOURCE_FINALIZED"} -> "SENT"
    [] detailed \in {"COMMITTED", "BLESSED", "VERIFYING", "VERIFIED"} -> "COMMITTED"
    [] detailed = "SUCCESS" -> "SUCCESS"
    [] detailed = "FAILED" -> "FAILED"
    [] OTHER -> "UNKNOWN"

\* `undefined` of the query data
NoData == [metaStatus |-> "none", rawStatus |-> "none", detailedStatus |-> "none"]

\* queryFn, after getMessageById has returned a message whose
\* metadata?.status is metaStatus
queryFnResult(metaStatus) ==
  LET status == IF metaStatus = "absent" THEN "Unknown" ELSE metaStatus
  IN  [metaStatus |-> metaStatus, rawStatus |-> status,
       detailedStatus |-> mapToDetailedStatus(status)]

\* errors getMessageById can reject with: CCIPMessageIdNotFoundError, another
\* CCIPError, or an error that is not a CCIPError; hint is getRetryDelay(error)
\* (-1: null)
NoHint == -1
Hints == {NoHint, 5000}

QueryError(kind, isCCIP, isTransient, hint) ==
  [kind |-> kind, isCCIP |-> isCCIP, isTransient |-> isTransient, hint |-> hint]

NoError == QueryError("none", FALSE, FALSE, NoHint)

QueryErrors ==
  {QueryError("notFound", TRUE, t, h) : t \in BOOLEAN, h \in Hints}
    \cup {QueryError("other", TRUE, t, h) : t \in BOOLEAN, h \in Hints}
    \cup {QueryError("other", FALSE, FALSE, NoHint)}

\* the error followed together with the session: one that is not a CCIPError
SessionErrors == {QueryError("other", FALSE, FALSE, NoHint)}

Min(a, b) == IF a <= b THEN a ELSE b

\* retry option: called with the number of failed attempts before this one
retryTransientFirst(failureCount, error) ==
  IF error.isCCIP /\ error.isTransient THEN failureCount < TRANSIENT_RETRIES
  ELSE IF error.kind = "notFound" THEN failureCount < NOT_FOUND_RETRIES
  ELSE failureCount < OTHER_RETRIES

retry(failureCount, error) ==
  IF error.kind = "notFound" THEN failureCount < NOT_FOUND_RETRIES
  ELSE IF error.isCCIP /\ error.isTransient THEN failureCount < TRANSIENT_RETRIES
  ELSE failureCount < OTHER_RETRIES

\* retryDelay option
retryDelayNoHint(attemptIndex, error) ==
  Min(RETRY_BASE * 2 ^ attemptIndex, RETRY_CAP)

retryDelay(attemptIndex, error) ==
  IF error.isCCIP /\ error.hint # NoHint THEN error.hint
  ELSE Min(RETRY_BASE * 2 ^ attemptIndex, RETRY_CAP)

\* enabled option
enabled(id, timedOut, stopped) == id # 0 /\ ~timedOut /\ ~stopped

\* refetchInterval option (0: false)
refetchIntervalUncapped(id, timedOut, stopped, data, polls) ==
  IF id = 0 \/ timedOut \/ stopped THEN 0
  ELSE IF data.detailedStatus \in {"SUCCESS", "FAILED"} THEN 0
  ELSE initialDelay + polls * delayIncrement

refetchInterval(id, timedOut, stopped, data, polls) ==
  IF id = 0 \/ timedOut \/ stopped THEN 0
  ELSE IF data.detailedStatus \in {"SUCCESS", "FAILED"} THEN 0
  ELSE Min(initialDelay + polls * delayIncrement, maxDelay)

\* the fetch of a query: idle, an attempt in flight ("fetching"), or asleep
\* before the next attempt ("backoff"); failureCount is fetchFailureCount
Fetch(phase, failureCount, wait, lastError) ==
  [phase |-> phase, failureCount |-> failureCount, wait |-> wait,
   lastError |-> lastError]

FetchIdle == Fetch("idle", 0, 0, NoError)
FetchStarted == Fetch("fetching", 0, 0, NoError)

\* data returned by useQuery: the query's data, or while the query is pending
\* the placeholder, which is the data of the last query that had data
DataOf(data, error, last) ==
  IF data # NoData THEN data
  ELSE IF error = NoError THEN last
  ELSE NoData

\* detailedStatus = data?.detailedStatus ?? 'UNKNOWN'
DetailedStatusOf(data, error, last) ==
  IF DataOf(data, error, last) = NoData THEN "UNKNOWN"
  ELSE DataOf(data, error, last).detailedStatus

\* values returned by the hook
detailedStatus == DetailedStatusOf(qData, qError, lastData)
state == mapToSimplifiedState(detailedStatus)
isFinal == state \in {"SUCCESS", "FAILED"}
elapsedIntervalRunning == messageId # 0 /\ ~isTimedOut /\ ~manualStop

Networks == {"ethereum-sepolia", "base-sepolia"}

\* clock values that are followed: the first seconds, and the seconds around
\* the polling timeout
Instants ==
  {k * ELAPSED_INTERVAL : k \in 0..MaxTicks}
    \cup {MESSAGE_POLLING + k * ELAPSED_INTERVAL : k \in (-1)..MaxTicks}

TrackInit ==
  /\ isTimedOut = FALSE
  /\ manualStop = FALSE
  /\ startTime = -1
  /\ now = 0
  /\ pollCount = 0
  /\ keysSeen = {}
  /\ qData = NoData
  /\ qError = NoError
  /\ qFetch = FetchIdle
  /\ lastData = NoData
  /\ refetchDelay = 0
  /\ orphan = FALSE
  /\ terminalSeen = FALSE
  /\ lastCall = 0

\* a step of another part of the application: the tracker is left alone and
\* getMessageById is not called
TrackerIdle == lastCall' = 0 /\ UNCHANGED trackState

\* BridgeForm effect on [messageState]: a change of the state returned by the
\* hook to SUCCESS or FAILED sets bridgeState; base is what the handler itself
\* set
BridgeStateAfter(base) ==
  LET before == state
      after == mapToSimplifiedState(DetailedStatusOf(qData', qError', lastData'))
  IN  IF after = before THEN base
      ELSE IF after = "SUCCESS" THEN "success"
      ELSE IF after = "FAILED" THEN "error"
      ELSE base

\* the hook is rendered with (net, id): the reset effect on [messageId], and
\* the observer moving to the query of the new key, which is fetched at once
\* when the query is enabled; an attempt in flight for the old key is not
\* aborted, a sleeping retry of it is cancelled
SetQueryKey(net, id) ==
  IF net = sourceNetwork /\ id = messageId
  THEN TrackerIdle
  ELSE LET sameId == id = messageId
           timedOut == IF sameId THEN isTimedOut ELSE FALSE
           stopped == IF sameId THEN manualStop ELSE FALSE
           polls == IF sameId THEN pollCount ELSE 0
           fetchNow == enabled(id, timedOut, stopped)
       IN  /\ isTimedOut' = timedOut
           /\ manualStop' = stopped
           /\ pollCount' = polls
           /\ startTime' = IF sameId THEN startTime ELSE IF id # 0 THEN now ELSE -1
           /\ keysSeen' = IF sameId THEN keysSeen \cup {net} ELSE {net}
           /\ terminalSeen' = IF sameId THEN terminalSeen ELSE FALSE
           /\ qData' = NoData
           /\ qError' = NoError
           /\ qFetch' = IF fetchNow THEN FetchStarted ELSE FetchIdle
           /\ lastCall' = IF fetchNow THEN id ELSE 0
           /\ refetchDelay' = refetchInterval(id, timedOut, stopped, NoData, polls)
           /\ orphan' = (orphan \/ qFetch.phase = "fetching")
           /\ UNCHANGED <<now, lastData>>

(***************************************************************************)
(* localStorage: the persisted transaction history                         *)
(***************************************************************************)
TransactionStatus == {"pending", "success", "failed", "timeout"}

\* what setItem can do in saveTransactions: store the list, store the first
\* half after a quota error, or store nothing (both attempts throw, or
\* localStorage is not available)
SaveOutcomes == {"stored", "halved", "failed"}

\* the fields of a StoredTransaction that are followed
StoredTransaction(id, status, timestamp, lastChecked) ==
  [messageId |-> id, status |-> status, timestamp |-> timestamp,
   lastChecked |-> lastChecked]

\* the argument of addTransaction: a record without timestamp and lastChecked
NewTransaction(id, status) == [messageId |-> id, status |-> status]

HistInit ==
  /\ stored = << >>
  /\ lastOp = [op |-> "none", id |-> 0]

getStoredTransactions == stored

\* transactions.slice(0, n)
SliceAll(transactions, n) == transactions

Slice(transactions, n) == SubSeq(transactions, 1, Min(n, Len(transactions)))

\* transactions.findIndex((t) => t.messageId === id), 1-based (0: -1)
findIndex(transactions, id) ==
  IF \E i \in 1..Len(transactions) : transactions[i].messageId = id
  THEN CHOOSE i \in 1..Len(transactions) :
         /\ transactions[i].messageId = id
         /\ \A j \in 1..(i - 1) : transactions[j].messageId # id
  ELSE 0

saveTransactions(transactions, outcome) ==
  stored' = CASE outcome = "stored" -> Slice(transactions, MAX_TRANSACTIONS)
              [] outcome = "halved" -> Slice(transactions, MAX_TRANSACTIONS \div 2)
              [] outcome = "failed" -> stored

\* the list addTransaction hands to saveTransactions
WithTransactionUnshifted(transactions, transaction, t) ==
  <<StoredTransaction(transaction.messageId, transaction.status, t, t)>>
    \o transactions

WithTransaction(transactions, transaction, t) ==
  LET existingIndex == findIndex(transactions, transaction.messageId)
  IN  IF existingIndex # 0
      THEN [transactions EXCEPT ![existingIndex] =
              StoredTransaction(transaction.messageId, transaction.status,
                                transactions[existingIndex].timestamp, t)]
      ELSE <<StoredTransaction(transaction.messageId, transaction.status, t, t)>>
             \o transactions

addTransaction(transaction, outcome) ==
  /\ saveTransactions(WithTransaction(getStoredTransactions, transaction, now), outcome)
  /\ lastOp' = [op |-> "add", id |-> transaction.messageId]

\* variant: a record that is not found is written anew
updateTransactionStatusUpsert(id, status, outcome) ==
  LET transactions == getStoredTransactions
      index == findIndex(transactions, id)
  IN  /\ IF index # 0
         THEN saveTransactions(
                [transactions EXCEPT ![index] =
                   StoredTransaction(id, status, transactions[index].timestamp, now)],
                outcome)
         ELSE saveTransactions(
                <<StoredTransaction(id, status, now, now)>> \o transactions,
                outcome)
      /\ lastOp' = [op |-> "update", id |-> id]

updateTransactionStatus(id, status, outcome) ==
  LET transactions == getStoredTransactions
      index == findIndex(transactions, id)
  IN  /\ IF index # 0
         THEN saveTransactions(
                [transactions EXCEPT ![index] =
                   StoredTransaction(id, status, transactions[index].timestamp, now)],
                outcome)
         ELSE UNCHANGED stored
      /\ lastOp' = [op |-> "update", id |-> id]

\* transactions.filter((t) => t.messageId !== id)
RECURSIVE Without(_, _)
Without(transactions, id) ==
  IF transactions = << >> THEN << >>
  ELSE IF Head(transactions).messageId = id THEN Without(Tail(transactions), id)
  ELSE <<Head(transactions)>> \o Without(Tail(transactions), id)

removeTransaction(id, outcome) ==
  /\ saveTransactions(Without(getStoredTransactions, id), outcome)
  /\ lastOp' = [op |-> "remove", id |-> id]

clearAllTransactions(available) ==
  /\ stored' = IF available THEN << >> ELSE stored
  /\ lastOp' = [op |-> "clear", id |-> 0]

\* a step that uses the history store only
HistoryOnly == TrackerIdle /\ UNCHANGED <<formVars, sessionVars>>

\* identifiers of the records of a list
IdsOf(transactions) == {transactions[i].messageId : i \in 1..Len(transactions)}

\* the identifier of the next message while the history is filled: larger
\* than every stored one, so that identifiers grow in the order of insertion
NextId ==
  IF stored = << >> THEN 1
  ELSE 1 + CHOOSE id \in IdsOf(stored) : \A other \in IdsOf(stored) : other <= id

\* a transfer with a new identifier is added to the history
AddNext(outcome) ==
  /\ NextId <= MaxHistIds
  /\ addTransaction(NewTransaction(NextId, "pending"), outcome)
  /\ HistoryOnly

(***************************************************************************)
(* config: buildCCIPMessage; BridgeForm: ccipMessage, canSubmit,           *)
(* handleSubmit, handleReset; useFeeEstimate: fetchFee                     *)
(***************************************************************************)
\* the receivers the form can hold: the auto-filled wallet address, a typed one
Receivers == {"wallet", "typed"}

\* CCIP-BnM on the source network (sourceTokenAddress)
sourceTokenAddress == "CCIP-BnM"

\* buildCCIPMessage({receiver, tokenAddress, amount, data = '0x', gasLimit = 0n})
buildCCIPMessage(receiver, tokenAddress, amt) ==
  [receiver |-> receiver, data |-> "0x", token |-> tokenAddress,
   amount |-> amt, gasLimit |-> 0]

\* the null of `CCIPMessage | null`
NullMessage ==
  [receiver |-> "", data |-> "", token |-> "", amount |-> 0, gasLimit |-> 0]

\* useMemo: ccipMessage of the current inputs
ccipMessageOf(receiver, amt) ==
  IF receiver = "" \/ amt <= 0 THEN NullMessage
  ELSE buildCCIPMessage(receiver, sourceTokenAddress, amt)

ccipMessage == ccipMessageOf(effectiveDestAddress, amount)

\* a fee returned by getFee is identified with the message it was quoted for
FeeFor(message) == [null |-> FALSE, quotedFor |-> message]
NullFee == [null |-> TRUE, quotedFor |-> NullMessage]

canSubmit ==
  /\ sourceNetwork # ""
  /\ effectiveDestAddress # ""
  /\ amount > 0
  /\ ~fee.null
  /\ isWalletConnected
  /\ bridgeState = "idle"
  /\ isLaneSupported

FormInit ==
  /\ amount = 0
  /\ effectiveDestAddress = "wallet"
  /\ fee = NullFee
  /\ feeLoading = FALSE
  /\ feeInFlight = << >>
  /\ isWalletConnected = FALSE
  /\ isLaneSupported = FALSE
  /\ sent = [message |-> NullMessage, fee |-> NullFee]

SessionInit ==
  /\ bridgeState = "idle"
  /\ sourceNetwork = ""
  /\ messageId = 0
  /\ flow = "none"
  /\ idsUsed = 0

\* fetchFee, up to its first await: without a network or a message
\* setFee(null), otherwise setIsLoading(true) and getFee is called with the
\* message
FetchFeeStart(net, message) ==
  IF net = "" \/ message = NullMessage
  THEN fee' = NullFee /\ UNCHANGED <<feeLoading, feeInFlight>>
  ELSE /\ feeLoading' = TRUE
       /\ feeInFlight' = Append(feeInFlight, message)
       /\ UNCHANGED fee

\* the user edits the amount or the destination address (the form is rendered
\* in the idle and error states); a changed message re-runs the fetchFee effect
EditInputs(amt, receiver) ==
  /\ bridgeState \in {"idle", "error"}
  /\ <<amt, receiver>> # <<amount, effectiveDestAddress>>
  /\ Len(feeInFlight) < MaxFeeInFlight
  /\ amount' = amt
  /\ effectiveDestAddress' = receiver
  /\ IF ccipMessageOf(receiver, amt) # ccipMessage
     THEN FetchFeeStart(sourceNetwork, ccipMessageOf(receiver, amt))
     ELSE UNCHANGED <<fee, feeLoading, feeInFlight>>
  /\ TrackerIdle
  /\ UNCHANGED histVars
  /\ UNCHANGED <<isWalletConnected, isLaneSupported, sent, sessionVars>>

RemoveAt(seq, i) == SubSeq(seq, 1, i - 1) \o SubSeq(seq, i + 1, Len(seq))

\* the i-th getFee call in flight settles: setFee(estimatedFee) or, in the
\* catch block, setFee(null); finally setIsLoading(false)
FeeSettled(i, ok) ==
  /\ i \in 1..Len(feeInFlight)
  /\ fee' = IF ok THEN FeeFor(feeInFlight[i]) ELSE NullFee
  /\ feeLoading' = FALSE
  /\ feeInFlight' = RemoveAt(feeInFlight, i)
  /\ TrackerIdle
  /\ UNCHANGED histVars
  /\ UNCHANGED <<amount, effectiveDestAddress, isWalletConnected,
                 isLaneSupported, sent, sessionVars>>

\* handleSubmit after its guards: setBridgeState('approving'),
\* setMessageId(null), executeTransfer(chain, router, destConfig, ccipMessage, fee)
Submit ==
  /\ sourceNetwork # ""
  /\ flow = "none"
  /\ sent' = [message |-> ccipMessage, fee |-> fee]
  /\ flow' = "approving"
  /\ messageId' = 0
  /\ SetQueryKey(sourceNetwork, 0)
  /\ bridgeState' = BridgeStateAfter("approving")
  /\ UNCHANGED histVars
  /\ UNCHANGED <<amount, effectiveDestAddress, fee, feeLoading, feeInFlight,
                 isWalletConnected, isLaneSupported, sourceNetwork, idsUsed>>

\* handleSubmit
HandleSubmit ==
  /\ canSubmit
  /\ ccipMessage # NullMessage
  /\ ~fee.null
  /\ Submit

\* handleSubmit, with the inputs, the wallet, the lane and the fee left to the
\* environment
HandleSubmitAnyInputs ==
  /\ bridgeState = "idle"
  /\ Submit

\* executeTransfer reaches onStateChange('tracking'), which calls
\* setBridgeState (the 'sending' and 'confirming' reports before it are not
\* followed)
FlowAdvances ==
  /\ flow = "approving"
  /\ flow' = "tracking"
  /\ bridgeState' = "tracking"
  /\ TrackerIdle
  /\ UNCHANGED histVars
  /\ UNCHANGED <<formVars, sourceNetwork, messageId, idsUsed>>

\* executeTransfer has looked for the message of the send transaction: with
\* a message onMessageId(setMessageId) is called, the flow returns and
\* handleSubmit adds the transfer to the history as pending
FlowExtracted(hasMsg, outcome) ==
  /\ flow = "tracking"
  /\ hasMsg => idsUsed < MaxIds
  /\ flow' = "none"
  /\ LET id == IF hasMsg THEN idsUsed + 1 ELSE messageId
     IN  /\ idsUsed' = IF hasMsg THEN id ELSE idsUsed
         /\ messageId' = id
         /\ SetQueryKey(sourceNetwork, id)
         /\ IF hasMsg
            THEN addTransaction(NewTransaction(id, "pending"), outcome)
            ELSE UNCHANGED histVars
  /\ bridgeState' = BridgeStateAfter(bridgeState)
  /\ UNCHANGED <<formVars, sourceNetwork>>

\* executeTransfer throws: the catch block of handleSubmit sets the error state
FlowThrows ==
  /\ flow # "none"
  /\ flow' = "none"
  /\ bridgeState' = "error"
  /\ TrackerIdle
  /\ UNCHANGED histVars
  /\ UNCHANGED <<formVars, sourceNetwork, messageId, idsUsed>>

\* handleReset (the button of TransactionStatus is always shown): back to
\* idle with messageId and the inputs cleared; the cleared amount makes
\* ccipMessage null, and the fetchFee effect sets the fee to null
HandleReset ==
  /\ bridgeState \notin {"idle", "error"}
  /\ amount' = 0
  /\ effectiveDestAddress' = "wallet"
  /\ IF ccipMessage # NullMessage
     THEN FetchFeeStart(sourceNetwork, NullMessage)
     ELSE UNCHANGED <<fee, feeLoading, feeInFlight>>
  /\ messageId' = 0
  /\ SetQueryKey(sourceNetwork, 0)
  /\ bridgeState' = BridgeStateAfter("idle")
  /\ UNCHANGED histVars
  /\ UNCHANGED <<isWalletConnected, isLaneSupported, sent, sourceNetwork,
                 flow, idsUsed>>

\* the error banner is dismissed: setBridgeState('idle'), inputs and
\* messageId kept
DismissError ==
  /\ bridgeState = "error"
  /\ bridgeState' = "idle"
  /\ TrackerIdle
  /\ UNCHANGED histVars
  /\ UNCHANGED <<formVars, sourceNetwork, messageId, flow, idsUsed>>

\* the user selects another source network in the form (rendered in the idle
\* and error states), which re-runs the fetchFee effect; with a messageId
\* only a network whose query does not exist yet is followed
ChangeSourceNetwork(net) ==
  /\ bridgeState \in {"idle", "error"}
  /\ net # sourceNetwork
  /\ messageId # 0 => net \notin keysSeen
  /\ Len(feeInFlight) < MaxFeeInFlight
  /\ sourceNetwork' = net
  /\ FetchFeeStart(net, ccipMessage)
  /\ SetQueryKey(net, messageId)
  /\ bridgeState' = BridgeStateAfter(bridgeState)
  /\ UNCHANGED histVars
  /\ UNCHANGED <<amount, effectiveDestAddress, isWalletConnected,
                 isLaneSupported, sent, messageId, flow, idsUsed>>

\* the wallet connects / disconnects, the pool lookup reports the lane
EnvironmentChanges(connected, supported) ==
  /\ bridgeState = "idle"
  /\ <<connected, supported>> # <<isWalletConnected, isLaneSupported>>
  /\ isWalletConnected' = connected
  /\ isLaneSupported' = supported
  /\ TrackerIdle
  /\ UNCHANGED histVars
  /\ UNCHANGED <<amount, effectiveDestAddress, fee, feeLoading, feeInFlight,
                 sent, sessionVars>>

\* the form, with transfers whose transaction carries no message to track
FormNext ==
  \/ \E amt \in 0..MaxAmount, r \in Receivers : EditInputs(amt, r)
  \/ \E i \in 1..MaxFeeInFlight, ok \in BOOLEAN : FeeSettled(i, ok)
  \/ \E net \in Networks : ChangeSourceNetwork(net)
  \/ HandleSubmit
  \/ FlowAdvances
  \/ FlowExtracted(FALSE, "stored")
  \/ FlowThrows
  \/ HandleReset
  \/ DismissError
  \/ \E c \in BOOLEAN, l \in BOOLEAN : EnvironmentChanges(c, l)

(***************************************************************************)
(* useMessageStatus: the elapsed-time interval, stopPolling, and the       *)
(* status query with its retries and its refetch interval                  *)
(***************************************************************************)
\* time passes to t; the elapsed-time interval, when it is running, fires at t
\* and sets isTimedOut once the elapsed time has reached the timeout
Tick(t) ==
  /\ t \in Instants
  /\ t > now
  /\ now' = t
  /\ isTimedOut' =
       (isTimedOut \/ (/\ elapsedIntervalRunning
                       /\ startTime # -1
                       /\ t - startTime >= MESSAGE_POLLING))
  /\ refetchDelay' = refetchInterval(messageId, isTimedOut', manualStop, qData, pollCount)
  /\ lastCall' = 0
  /\ UNCHANGED <<manualStop, startTime, pollCount, keysSeen, qData, qError,
                 qFetch, lastData, orphan, terminalSeen>>
  /\ UNCHANGED <<formVars, sessionVars, histVars>>

\* stopPolling
StopPolling ==
  /\ ~manualStop
  /\ manualStop' = TRUE
  /\ refetchDelay' = refetchInterval(messageId, isTimedOut, TRUE, qData, pollCount)
  /\ lastCall' = 0
  /\ UNCHANGED <<isTimedOut, startTime, now, pollCount, keysSeen, qData,
                 qError, qFetch, lastData, orphan, terminalSeen>>
  /\ UNCHANGED <<formVars, sessionVars, histVars>>

\* the refetch interval fires while no fetch is running: a new fetch starts
\* with its first call of getMessageById; a query without data goes back to
\* pending
PollTimerFires ==
  /\ refetchDelay > 0
  /\ qFetch.phase = "idle"
  /\ qFetch' = FetchStarted
  /\ qError' = IF qData = NoData THEN NoError ELSE qError
  /\ lastCall' = messageId
  /\ UNCHANGED <<isTimedOut, manualStop, startTime, now, pollCount, keysSeen,
                 qData, lastData, refetchDelay, orphan, terminalSeen>>
  /\ bridgeState' = BridgeStateAfter(bridgeState)
  /\ UNCHANGED <<formVars, sourceNetwork, messageId, flow, idsUsed, histVars>>

\* getMessageById returns a message whose metadata?.status is metaStatus: the
\* queryFn counts the poll and returns the snapshot, which becomes the data
AttemptSucceeds(metaStatus) ==
  /\ qFetch.phase = "fetching"
  /\ pollCount < MaxPolls
  /\ pollCount' = pollCount + 1
  /\ qData' = queryFnResult(metaStatus)
  /\ lastData' = qData'
  /\ qError' = NoError
  /\ qFetch' = FetchIdle
  /\ terminalSeen' =
       (terminalSeen \/ mapToSimplifiedState(qData'.detailedStatus)
                          \in {"SUCCESS", "FAILED"})
  /\ refetchDelay' = refetchInterval(messageId, isTimedOut, manualStop, qData', pollCount')
  /\ lastCall' = 0
  /\ bridgeState' = BridgeStateAfter(bridgeState)
  /\ UNCHANGED <<isTimedOut, manualStop, startTime, now, keysSeen, orphan>>
  /\ UNCHANGED <<formVars, sourceNetwork, messageId, flow, idsUsed, histVars>>

\* getMessageById rejects with error: the retry option decides between
\* another attempt after retryDelay and giving the error to the observer
AttemptFails(error) ==
  /\ qFetch.phase = "fetching"
  /\ IF retry(qFetch.failureCount, error)
     THEN /\ qFetch' = Fetch("backoff", qFetch.failureCount + 1,
                             retryDelay(qFetch.failureCount, error), error)
          /\ UNCHANGED qError
     ELSE /\ qFetch' = Fetch("idle", qFetch.failureCount + 1, 0, error)
          /\ qError' = error
  /\ lastCall' = 0
  /\ UNCHANGED <<isTimedOut, manualStop, startTime, now, pollCount, keysSeen,
                 qData, lastData, refetchDelay, orphan, terminalSeen>>
  /\ bridgeState' = BridgeStateAfter(bridgeState)
  /\ UNCHANGED <<formVars, sourceNetwork, messageId, flow, idsUsed, histVars>>

\* the sleep before a retry ends: the next attempt calls getMessageById; the
\* retry does not look at the enabled option
RetryFires ==
  /\ qFetch.phase = "backoff"
  /\ qFetch' = Fetch("fetching", qFetch.failureCount, 0, NoError)
  /\ lastCall' = messageId
  /\ UNCHANGED <<isTimedOut, manualStop, startTime, now, pollCount, keysSeen,
                 qData, qError, lastData, refetchDelay, orphan, terminalSeen>>
  /\ UNCHANGED <<formVars, sessionVars, histVars>>

\* an attempt of a query that is no longer observed settles (others may
\* remain): when it succeeded its queryFn has counted a poll
OrphanSettles(ok, more) ==
  /\ orphan
  /\ ok => pollCount < MaxPolls
  /\ orphan' = more
  /\ pollCount' = IF ok THEN pollCount + 1 ELSE pollCount
  /\ lastCall' = 0
  /\ UNCHANGED <<isTimedOut, manualStop, startTime, now, keysSeen, qData,
                 qError, qFetch, lastData, refetchDelay, terminalSeen>>
  /\ UNCHANGED <<formVars, sessionVars, histVars>>

\* the session and its tracker; the history is written without storage errors
TrackNext ==
  \/ HandleSubmitAnyInputs
  \/ FlowAdvances
  \/ \E hasMsg \in BOOLEAN : FlowExtracted(hasMsg, "stored")
  \/ FlowThrows
  \/ HandleReset
  \/ DismissError
  \/ \E net \in Networks : ChangeSourceNetwork(net)
  \/ \E t \in Instants : Tick(t)
  \/ StopPolling
  \/ PollTimerFires
  \/ \E metaStatus \in SessionStatuses : AttemptSucceeds(metaStatus)
  \/ \E error \in SessionErrors : AttemptFails(error)
  \/ RetryFires
  \/ \E ok \in BOOLEAN, more \in BOOLEAN : OrphanSettles(ok, more)

\* one tracked message, with every status getMessageById can return and every
\* error it can reject with
QueryNext ==
  \/ \E net \in Networks : ChangeSourceNetwork(net)
  \/ HandleSubmitAnyInputs
  \/ FlowAdvances
  \/ FlowExtracted(TRUE, "stored")
  \/ PollTimerFires
  \/ \E metaStatus \in MetadataStatuses : AttemptSucceeds(metaStatus)
  \/ \E error \in QueryErrors : AttemptFails(error)
  \/ RetryFires

\* the history store: its operations at any time
HistNext ==
  \/ \E id \in 1..MaxIds, status \in TransactionStatus, outcome \in SaveOutcomes :
       addTransaction(NewTransaction(id, status), outcome) /\ HistoryOnly
  \/ \E id \in 1..MaxIds, status \in TransactionStatus, outcome \in SaveOutcomes :
       updateTransactionStatus(id, status, outcome) /\ HistoryOnly
  \/ \E id \in 1..MaxIds, outcome \in SaveOutcomes :
       removeTransaction(id, outcome) /\ HistoryOnly
  \/ \E available \in BOOLEAN : clearAllTransactions(available) /\ HistoryOnly
  \/ \E t \in Instants : Tick(t)

\* the history store filled with one new transfer after the other
FillNext == \E outcome \in SaveOutcomes : AddNext(outcome)

(***************************************************************************)
(* TransactionHistoryProvider: background polling of pending transactions  *)
(***************************************************************************)
\* where a getMessageById response carries the status: at the top level
\* (`status`), as pollPendingTransactions reads it, or in `metadata`, as the
\* SDK does from v0.96.0 on (useMessageStatus reads it there)
ResponseShapes == {"topLevel", "metadata"}

\* the response of getMessageById for a message whose status is status
Response(status, shape) ==
  [status |-> IF shape = "topLevel" THEN status ELSE "absent",
   metadata |-> [status |-> IF shape = "metadata" THEN status ELSE "absent"]]

\* what handling one pending record can meet: getChain returns nothing, the
\* query throws, or the query answers
HandlingOutcomes == {"noChain", "throws", "answered"}

ReconInit ==
  /\ providerTransactions = << >>
  /\ msgStatus = [id \in 1..MaxIds |-> "Sent"]
  /\ rPc = "idle"
  /\ rPending = << >>
  /\ rIdx = 0
  /\ rFailed = {}
  /\ rLast = [id |-> 0, outcome |-> "none", status |-> "none"]

\* a step that leaves the provider's polling alone
ReconIdle == UNCHANGED <<msgStatus, rPc, rPending, rIdx, rFailed, rLast>>

\* refresh(): setTransactions(getStoredTransactions()), after the storage
\* operation of the same step
refresh == providerTransactions' = stored'

\* getPendingTransactions(), as identifiers
RECURSIVE PendingIds(_)
PendingIds(list) ==
  IF list = << >> THEN << >>
  ELSE IF Head(list).status = "pending"
       THEN <<Head(list).messageId>> \o PendingIds(Tail(list))
       ELSE PendingIds(Tail(list))

getPendingTransactions == PendingIds(getStoredTransactions)

\* provider addTransaction
ProviderAdd(id, outcome) ==
  /\ addTransaction(NewTransaction(id, "pending"), outcome)
  /\ refresh
  /\ ReconIdle
  /\ HistoryOnly

\* provider removeTransaction
ProviderRemove(id, outcome) ==
  /\ removeTransaction(id, outcome)
  /\ refresh
  /\ ReconIdle
  /\ HistoryOnly

\* provider clearHistory
ClearHistory(available) ==
  /\ clearAllTransactions(available)
  /\ refresh
  /\ ReconIdle
  /\ HistoryOnly

\* the network executes a message, or fails to
MessageSettles(id, status) ==
  /\ msgStatus[id] = "Sent"
  /\ status \in {"Success", "Failed"}
  /\ msgStatus' = [msgStatus EXCEPT ![id] = status]
  /\ UNCHANGED <<providerTransactions, rPc, rPending, rIdx, rFailed, rLast>>
  /\ UNCHANGED histVars
  /\ HistoryOnly

\* pollPendingTransactions is called (on mount and by the interval) and has
\* pending records: the first one is taken up
PollStart ==
  /\ rPc # "polling"
  /\ getPendingTransactions # << >>
  /\ rPc' = "polling"
  /\ rPending' = getPendingTransactions
  /\ rIdx' = 1
  /\ rFailed' = {}
  /\ UNCHANGED <<providerTransactions, msgStatus, rLast>>
  /\ UNCHANGED histVars
  /\ HistoryOnly

\* newStatus of pollPendingTransactions for a response
newStatus(message) ==
  IF message.status = "Success" THEN "success"
  ELSE IF message.status = "Failed" THEN "failed"
  ELSE "pending"

\* where the cycle is after a record whose handling failed: the catch inside
\* the loop lets it go on
AfterFailureUncaught(last) == "rejected"

AfterFailure(last) == IF last THEN "idle" ELSE "polling"

\* one pass of the loop body for the record at rIdx, and, after the last
\* record, refresh()
RecordHandled(outcome, shape) ==
  LET id == rPending[rIdx]
      last == rIdx = Len(rPending)
      message == Response(msgStatus[id], shape)
      failed == outcome # "answered"
      pc == IF failed THEN AfterFailure(last)
            ELSE IF last THEN "idle" ELSE "polling"
  IN  /\ rPc = "polling"
      /\ IF ~failed /\ newStatus(message) # "pending"
         THEN /\ updateTransactionStatus(id, newStatus(message), "stored")
         ELSE UNCHANGED histVars
      /\ rPc' = pc
      /\ rIdx' = IF pc = "polling" THEN rIdx + 1 ELSE 0
      /\ rFailed' = IF failed THEN rFailed \cup {id} ELSE rFailed
      /\ rLast' = [id |-> id, outcome |-> outcome,
                   status |-> IF failed THEN "none" ELSE msgStatus[id]]
      /\ providerTransactions' = IF pc = "idle" THEN stored' ELSE providerTransactions
      /\ UNCHANGED <<msgStatus, rPending>>
      /\ HistoryOnly

ReconNext ==
  \/ \E id \in 1..MaxIds, outcome \in SaveOutcomes : ProviderAdd(id, outcome)
  \/ \E id \in 1..MaxIds, outcome \in SaveOutcomes : ProviderRemove(id, outcome)
  \/ \E available \in BOOLEAN : ClearHistory(available)
  \/ \E id \in 1..MaxIds, status \in {"Success", "Failed"} : MessageSettles(id, status)
  \/ PollStart
  \/ \E outcome \in HandlingOutcomes, shape \in ResponseShapes :
       RecordHandled(outcome, shape)
  \/ \E t \in Instants : Tick(t) /\ UNCHANGED reconVars

(***************************************************************************)
(* useTokenPoolInfo: pool lookup for the selected lane                     *)
(***************************************************************************)
\* TokenPoolInfo, reduced to whether a remote configuration was found
\* (remoteToken !== null || remotePools.length > 0), and the lane (source
\* network; destination and token are fixed) whose lookup produced it
PoolInfo(lane, remotes) == [null |-> FALSE, lane |-> lane, remotes |-> remotes]
NullPoolInfo == [null |-> TRUE, lane |-> "", remotes |-> FALSE]

\* how fetchPoolInfo can end: getTokenPoolRemotes gives an entry, gives no
\* entry (or times out, or throws), or one of the lookups before it fails
PoolOutcomes == {"remotes", "noRemotes", "failed"}

PoolInit ==
  /\ poolInfo = NullPoolInfo
  /\ poolInFlight = << >>

\* isLaneSupported of the hook for a poolInfo
isLaneSupportedOf(info) == ~info.null /\ info.remotes

\* fetchPoolInfo up to its first await, run by the effect when the lane
\* changes: setIsLoading(true), setError(null); poolInfo is not touched
fetchPoolInfoStart(lane) ==
  /\ Len(poolInFlight) < MaxPoolInFlight
  /\ poolInFlight' = Append(poolInFlight, lane)
  /\ UNCHANGED poolInfo

\* the user selects another source network: the effects of useFeeEstimate,
\* useMessageStatus and useTokenPoolInfo run
SelectLane(net) ==
  /\ ChangeSourceNetwork(net)
  /\ fetchPoolInfoStart(net)

\* the i-th fetchPoolInfo call settles: setPoolInfo(...) after the remote
\* lookup, or setError in the catch block, which leaves poolInfo as it is
PoolSettled(i, outcome) ==
  /\ i \in 1..Len(poolInFlight)
  /\ poolInfo' = CASE outcome = "remotes" -> PoolInfo(poolInFlight[i], TRUE)
                   [] outcome = "noRemotes" -> PoolInfo(poolInFlight[i], FALSE)
                   [] outcome = "failed" -> poolInfo
  /\ poolInFlight' = RemoveAt(poolInFlight, i)
  /\ isLaneSupported' = isLaneSupportedOf(poolInfo')
  /\ TrackerIdle
  /\ UNCHANGED histVars
  /\ UNCHANGED <<amount, effectiveDestAddress, fee, feeLoading, feeInFlight,
                 isWalletConnected, sent, sessionVars>>

\* the wallet connects or disconnects
WalletChanges(connected) == EnvironmentChanges(connected, isLaneSupported)

\* the form with the pool lookup
PoolNext ==
  \/ \E amt \in 0..MaxAmount, r \in Receivers : EditInputs(amt, r) /\ UNCHANGED poolVars
  \/ \E i \in 1..MaxFeeInFlight, ok \in BOOLEAN : FeeSettled(i, ok) /\ UNCHANGED poolVars
  \/ \E net \in Networks : SelectLane(net)
  \/ \E i \in 1..MaxPoolInFlight, outcome \in PoolOutcomes : PoolSettled(i, outcome)
  \/ \E c \in BOOLEAN : WalletChanges(c) /\ UNCHANGED poolVars
  \/ HandleSubmit /\ UNCHANGED poolVars
  \/ FlowThrows /\ UNCHANGED poolVars
  \/ DismissError /\ UNCHANGED poolVars

(***************************************************************************)
(* BridgeForm with useTransactionExecution: the stage of the session while *)
(* a transfer flow runs                                                    *)
(***************************************************************************)
StateChanges == {"approving", "sending", "confirming", "tracking"}

\* the callbacks fired by the step
NewCallbacks == SubSeq(eCallbacks', Len(eCallbacks) + 1, Len(eCallbacks'))

\* onStateChange is setBridgeState: the stage after the state changes among
\* the callbacks cbs, starting from stage
RECURSIVE StageAfter(_, _)
StageAfter(stage, cbs) ==
  IF cbs = << >> THEN stage
  ELSE StageAfter(IF Head(cbs) \in StateChanges THEN Head(cbs) ELSE stage, Tail(cbs))

ResimInit == eResim = SimNone

\* handleSubmit calls executeTransfer, which picks the flow of the chain
SubmitEVM ==
  /\ HandleSubmitAnyInputs
  /\ EStart(TRUE)
  /\ eResim' = SimNone

SubmitSolana ==
  /\ HandleSubmitAnyInputs
  /\ SStart(TRUE)
  /\ eResim' = SimNone

\* the steps of a running flow, up to a transaction that carries no message
FlowStep ==
  \/ /\ UNCHANGED eResim
     /\ \/ \E n \in 0..MaxTxs, ok \in BOOLEAN : EGenerated(n, ok)
        \/ \E ok \in BOOLEAN : EApprovalHash(ok)
        \/ \E ok \in BOOLEAN : EApprovalReceipt(ok)
        \/ \E e \in {SimOk, SimError("undefined", << >>)} : ESimulated(e)
        \/ \E ok \in BOOLEAN : ESendHash(ok)
        \/ \E st \in {"success", "reverted", "throws"} : ESendReceipt(st)
        \/ \E ok \in BOOLEAN : EExtracted(ok, FALSE)
        \/ \E ok \in BOOLEAN : SGenerated(ok, FALSE)
        \/ \E ok \in BOOLEAN : SBlockhash(ok, FALSE)
        \/ \E ok \in BOOLEAN : SSendHash(ok, FALSE)
        \/ \E ok \in BOOLEAN : SConfirmed(ok, FALSE)
        \/ \E ok \in BOOLEAN : SGotTransaction(ok, FALSE)
        \/ \E ok \in BOOLEAN : SExtracted(ok, FALSE, FALSE)
  \/ \E e \in SimOutcomes : EResimulated(e) /\ eResim' = e

\* a step of the running flow as the form sees it: its state changes set
\* bridgeState; when it throws, the catch block of handleSubmit sets the
\* error state; when it returns without a message, handleSubmit is done
FlowRuns ==
  /\ flow # "none"
  /\ FlowStep
  /\ bridgeState' = IF ePc' \in {"thrown", "solThrown"} THEN "error"
                    ELSE StageAfter(bridgeState, NewCallbacks)
  /\ flow' = IF ePc' \in {"thrown", "solThrown", "done", "solDone"} THEN "none"
             ELSE IF "tracking" \in {NewCallbacks[k] : k \in 1..Len(NewCallbacks)}
                  THEN "tracking"
             ELSE flow
  /\ TrackerIdle
  /\ UNCHANGED histVars
  /\ UNCHANGED <<formVars, sourceNetwork, messageId, idsUsed>>

\* getMessagesInTx returns a message: onMessageId is setMessageId, which
\* starts the status query; the flow returns and handleSubmit adds the
\* transfer to the history as pending
FlowReturnsMessage ==
  /\ flow # "none"
  /\ idsUsed < MaxIds
  /\ EExtracted(TRUE, TRUE)
  /\ UNCHANGED eResim
  /\ flow' = "none"
  /\ idsUsed' = idsUsed + 1
  /\ messageId' = idsUsed + 1
  /\ SetQueryKey(sourceNetwork, idsUsed + 1)
  /\ addTransaction(NewTransaction(idsUsed + 1, "pending"), "stored")
  /\ bridgeState' = BridgeStateAfter(bridgeState)
  /\ UNCHANGED <<formVars, sourceNetwork>>

\* the settled promise is dropped
FlowSettled ==
  /\ ESettled \/ SSettled
  /\ eResim' = SimNone
  /\ TrackerIdle
  /\ UNCHANGED <<formVars, sessionVars, histVars>>

\* the wallet of the source chain disconnects while a transfer is in
\* progress: the effect sets the error state; the flow is not told
WalletDisconnected ==
  /\ bridgeState \notin {"idle", "success", "error"}
  /\ bridgeState' = "error"
  /\ TrackerIdle
  /\ UNCHANGED histVars
  /\ UNCHANGED <<formVars, sourceNetwork, messageId, flow, idsUsed>>

SessionNext ==
  \/ \E net \in Networks : ChangeSourceNetwork(net) /\ UNCHANGED <<execVars, eResim>>
  \/ SubmitEVM
  \/ SubmitSolana
  \/ FlowRuns
  \/ FlowReturnsMessage
  \/ FlowSettled
  \/ HandleReset /\ UNCHANGED <<execVars, eResim>>
  \/ DismissError /\ UNCHANGED <<execVars, eResim>>
  \/ WalletDisconnected /\ UNCHANGED <<execVars, eResim>>
(***************************************************************************)
(* timeout: withTimeout                                                    *)
(***************************************************************************)
\* an Error, or the absence of one
ErrorOf(text, seconds) == [kind |-> "Error", text |-> text, seconds |-> seconds]
AbsentError == [kind |-> "absent", text |-> "", seconds |-> 0]

\* a TimeoutResult ("absent": the field is not there)
TimeoutResult(data, timedOut, error) ==
  [data |-> data, timedOut |-> timedOut, error |-> error]
NoResult == TimeoutResult("absent", FALSE, AbsentError)

\* the states of the wrapped promise; a promise can fulfil with undefined
\* and reject with something that is not an Error
Pending == [state |-> "pending", value |-> ""]
Fulfilled(value) == [state |-> "fulfilled", value |-> value]
Rejected(reason) == [state |-> "rejected", value |-> reason]
Values == {"data", "undefined"}
Reasons == {"Error: failed", "failed"}

\* the budgets and operation names the calls are followed with
Budgets == {TOKEN_INFO, POOL_INFO}
OperationNames == {"Operation", "Remote pool lookup"}

\* Math.ceil(a / b) for positive integers
CeilDiv(a, b) == (a + b - 1) \div b

\* the result the timeout callback resolves timeoutPromise with
TimedOutResult(operationName, timeoutMs) ==
  TimeoutResult("absent", TRUE,
                ErrorOf(operationName \o " timed out", CeilDiv(timeoutMs, 1000)))

\* error instanceof Error ? error : new Error(String(error))
AsError(reason) ==
  IF reason = "Error: failed" THEN ErrorOf("failed", 0)
  ELSE ErrorOf("String(" \o reason \o ")", 0)

\* where withTimeout ends when the race rejects: the catch block returns a
\* result
AfterRejectionUncaught(reason) == [pc |-> "rejected", result |-> NoResult]

AfterRejection(reason) ==
  [pc |-> "returned", result |-> TimeoutResult("absent", FALSE, AsError(reason))]

TimeoutInit ==
  /\ wPc = "idle"
  /\ wTimeoutMs = 0
  /\ wName = ""
  /\ wElapsed = 0
  /\ wPromise = Pending
  /\ wTimer = "none"
  /\ wResult = NoResult

\* withTimeout(promise, timeoutMs, operationName) is called with a pending
\* promise: setTimeout, Promise.race
WCall(timeoutMs, operationName) ==
  /\ wPc # "racing"
  /\ wPc' = "racing"
  /\ wTimeoutMs' = timeoutMs
  /\ wName' = operationName
  /\ wElapsed' = 0
  /\ wPromise' = Pending
  /\ wTimer' = "armed"
  /\ wResult' = NoResult

\* time passes
WTick ==
  /\ wPc \in {"racing", "returned"}
  /\ wElapsed < MaxElapsedSteps * TOKEN_INFO
  /\ wElapsed' = wElapsed + TOKEN_INFO
  /\ UNCHANGED <<wPc, wTimeoutMs, wName, wPromise, wTimer, wResult>>

\* the wrapped promise fulfils: while the race is open it wins it, the
\* timeout is cleared and the data is returned
WFulfils(value) ==
  /\ wPromise = Pending
  /\ wPc \in {"racing", "returned"}
  /\ wPromise' = Fulfilled(value)
  /\ IF wPc = "racing"
     THEN /\ wPc' = "returned"
          /\ wTimer' = "cleared"
          /\ wResult' = TimeoutResult(value, FALSE, AbsentError)
     ELSE UNCHANGED <<wPc, wTimer, wResult>>
  /\ UNCHANGED <<wTimeoutMs, wName, wElapsed>>

\* the wrapped promise rejects: while the race is open the catch block
\* clears the timeout and returns the error
WRejects(reason) ==
  /\ wPromise = Pending
  /\ wPc \in {"racing", "returned"}
  /\ wPromise' = Rejected(reason)
  /\ IF wPc = "racing"
     THEN /\ wPc' = AfterRejection(reason).pc
          /\ wTimer' = "cleared"
          /\ wResult' = AfterRejection(reason).result
     ELSE UNCHANGED <<wPc, wTimer, wResult>>
  /\ UNCHANGED <<wTimeoutMs, wName, wElapsed>>

\* the timeout callback runs: it wins the race
WTimerFires ==
  /\ wTimer = "armed"
  /\ wElapsed >= wTimeoutMs
  /\ wTimer' = "fired"
  /\ wPc' = "returned"
  /\ wResult' = TimedOutResult(wName, wTimeoutMs)
  /\ UNCHANGED <<wTimeoutMs, wName, wElapsed, wPromise>>

TimeoutNext ==
  \/ \E timeoutMs \in Budgets, operationName \in OperationNames :
       WCall(timeoutMs, operationName)
  \/ WTick
  \/ \E value \in Values : WFulfils(value)
  \/ \E reason \in Reasons : WRejects(reason)
  \/ WTimerFires

(***************************************************************************)
(* useTokenPoolInfo: formatRateLimitBucket                                 *)
(***************************************************************************)
\* a RateLimitBucket, and the null of `RateLimitBucket | null`
RateLimitBucket(tokens, capacity, rate, isEnabled) ==
  [null |-> FALSE, tokens |-> tokens, capacity |-> capacity, rate |-> rate,
   isEnabled |-> isEnabled]
NullBucket == [null |-> TRUE, tokens |-> 0, capacity |-> 0, rate |-> 0,
               isEnabled |-> FALSE]

\* the object formatRateLimitBucket returns (current, max and rate before
\* toLocaleString), and its null
Formatted(current, max, rate, percentage) ==
  [null |-> FALSE, current |-> current, max |-> max, rate |-> rate,
   percentage |-> percentage]
NullFormatted == [null |-> TRUE, current |-> 0, max |-> 0, rate |-> 0, percentage |-> 0]

\* Math.round((current / max) * 100) for max > 0: halves are rounded up
RoundedPercent(current, max) == (200 * current + max) \div (2 * max)

\* max > 0 ? Math.round((current / max) * 100) : 0
percentageOf(current, max) ==
  IF max > 0 THEN RoundedPercent(current, max) ELSE 0

formatRateLimitBucket(b, d) ==
  IF b.null \/ ~b.isEnabled THEN NullFormatted
  ELSE LET divisor == 10 ^ d
           current == b.tokens \div divisor
           max == b.capacity \div divisor
           rate == b.rate \div divisor
       IN  Formatted(current, max, rate, percentageOf(current, max))

BucketInit ==
  /\ bucket = NullBucket
  /\ decimals = 0
  /\ formatted = NullFormatted

\* RateLimitDisplay is rendered with a bucket and the token's decimals
RenderBucket(b, d) ==
  /\ bucket' = b
  /\ decimals' = d
  /\ formatted' = formatRateLimitBucket(b, d)

Buckets ==
  {NullBucket}
    \cup {RateLimitBucket(t, c, r, e) :
            t \in 0..MaxUnits, c \in 0..MaxUnits, r \in {0, 1}, e \in BOOLEAN}

BucketNext == \E b \in Buckets, d \in 0..MaxDecimals : RenderBucket(b, d)


(***************************************************************************)
(* ChainProvider: the chain clients of the configured networks             *)
(***************************************************************************)
\* network keys that are followed: an EVM network and the Solana network
ChainKeys == {"ethereum-sepolia", "solana-devnet"}

\* runs of the mount effect: one, and a second one where StrictMode mounts,
\* unmounts and mounts the tree again
Runs == {1, 2}

\* a chain instance built by createChainInstance in a run of the effect;
\* destroy: the instance has a destroy function
Client(key, run, destroy) == [key |-> key, run |-> run, destroy |-> destroy]

ChainsInit ==
  /\ cPhase = "initial"
  /\ cStatus = [run \in Runs |-> "none"]
  /\ cPending = [run \in Runs |-> {}]
  /\ cBuilt = [run \in Runs |-> {}]
  /\ constructed = {}
  /\ chainsRef = {}
  /\ chains = {}
  /\ destroyed = {}
  /\ returned = {}

\* the cleanup of the effect: destroys the instances chainsRef holds
cleanup == destroyed' = destroyed \cup {c \in chainsRef : c.destroy}

\* the provider is mounted: the effect starts initializeChains; under
\* StrictMode doubling the effect is cleaned up and run again at once, before
\* any createChainInstance has settled
Mount(strict) ==
  /\ cPhase = "initial"
  /\ cPhase' = "mounted"
  /\ cStatus' = [run \in Runs |-> IF run = 1 \/ strict THEN "running" ELSE "none"]
  /\ cPending' = [run \in Runs |-> IF run = 1 \/ strict THEN ChainKeys ELSE {}]
  /\ IF strict THEN cleanup ELSE UNCHANGED destroyed
  /\ UNCHANGED <<cBuilt, constructed, chainsRef, chains, returned>>

\* createChainInstance of one network settles in a run: with an instance, or
\* with an error that is logged
CreateSettles(run, key, ok, destroy) ==
  /\ cStatus[run] = "running"
  /\ key \in cPending[run]
  /\ cPending' = [cPending EXCEPT ![run] = @ \ {key}]
  /\ IF ok
     THEN /\ constructed' = constructed \cup {Client(key, run, destroy)}
          /\ cBuilt' = [cBuilt EXCEPT ![run] = @ \cup {Client(key, run, destroy)}]
     ELSE UNCHANGED <<constructed, cBuilt>>
  /\ UNCHANGED <<cPhase, cStatus, chainsRef, chains, destroyed, returned>>

\* Promise.all of a run has settled: the map of the run replaces the ref and
\* the state; the state of an unmounted provider is not updated
InitializeCompletes(run) ==
  /\ cStatus[run] = "running"
  /\ cPending[run] = {}
  /\ cStatus' = [cStatus EXCEPT ![run] = "done"]
  /\ chainsRef' = cBuilt[run]
  /\ chains' = IF cPhase = "mounted" THEN cBuilt[run] ELSE chains
  /\ UNCHANGED <<cPhase, cPending, cBuilt, constructed, destroyed, returned>>

\* getChain(networkKey) of a consumer
getChain(networkKey) ==
  /\ cPhase = "mounted"
  /\ returned' = returned \cup {c \in chains : c.key = networkKey}
  /\ UNCHANGED <<cPhase, cStatus, cPending, cBuilt, constructed, chainsRef,
                 chains, destroyed>>

\* the application is unmounted: the cleanup of the effect runs
Unmount ==
  /\ cPhase = "mounted"
  /\ cPhase' = "unmounted"
  /\ cleanup
  /\ UNCHANGED <<cStatus, cPending, cBuilt, constructed, chainsRef, chains,
                 returned>>

ChainsNext ==
  \/ \E strict \in BOOLEAN : Mount(strict)
  \/ \E run \in Runs, key \in ChainKeys, ok \in BOOLEAN, destroy \in BOOLEAN :
       CreateSettles(run, key, ok, destroy)
  \/ \E run \in Runs : InitializeCompletes(run)
  \/ \E networkKey \in ChainKeys : getChain(networkKey)
  \/ Unmount

(***************************************************************************)
(* buildCCIPMessage                                                        *)
(***************************************************************************)
\* an optional argument: left out, or given with a value
NotGiven(default) == [given |-> FALSE, value |-> default]
Given(value) == [given |-> TRUE, value |-> value]

\* the argument object of buildCCIPMessage
BuildArgs(receiver, tokenAddress, amt, data, gasLimit) ==
  [receiver |-> receiver, tokenAddress |-> tokenAddress, amount |-> amt,
   data |-> data, gasLimit |-> gasLimit]

NoArgs == BuildArgs("", "", 0, NotGiven(""), NotGiven(0))

\* what a call came to: nothing yet ("none"), a CCIPMessage ("message"), or
\* an exception ("error")
BuildResult(kind, receiver, data, tokenAmounts, gasLimit) ==
  [kind |-> kind, receiver |-> receiver, data |-> data,
   tokenAmounts |-> tokenAmounts, extraArgs |-> [gasLimit |-> gasLimit]]

NoBuild == BuildResult("none", "", "", << >>, 0)

\* buildCCIPMessage called with an argument object, the optional arguments
\* included
buildCCIPMessageCall(args) ==
  LET data == IF args.data.given THEN args.data.value ELSE "0x"
      gasLimit == IF args.gasLimit.given THEN args.gasLimit.value ELSE 0
  IN  BuildResult("message", args.receiver, data,
                  <<[token |-> args.tokenAddress, amount |-> args.amount]>>,
                  gasLimit)

\* arguments that are followed
ArgumentSets ==
  {BuildArgs(receiver, "0xToken", amt, data, gasLimit) :
     receiver \in {"0xReceiver", "SolReceiver"},
     amt \in (-1)..MaxAmount,
     data \in {NotGiven(""), Given("0x1234")},
     gasLimit \in {NotGiven(0), Given(200000)}}

BuildInit ==
  /\ bArgs = NoArgs
  /\ bResult = NoBuild
  /\ bPrevArgs = NoArgs
  /\ bPrevResult = NoBuild

\* a call of buildCCIPMessage; the call before it is remembered
Build(args) ==
  /\ bPrevArgs' = bArgs
  /\ bPrevResult' = bResult
  /\ bArgs' = args
  /\ bResult' = buildCCIPMessageCall(args)

BuildNext == \E args \in ArgumentSets : Build(args)

(***************************************************************************)
(* The session with its tracker, with timers that fire and calls that      *)
(* return                                                                  *)
(***************************************************************************)
\* the variables the session with its tracker leaves alone
idleVars == <<execVars, auxVars>>

\* steps of the user
UserStep ==
  /\ \/ \E net \in Networks : ChangeSourceNetwork(net)
     \/ HandleSubmitAnyInputs
     \/ HandleReset
     \/ DismissError
  /\ UNCHANGED idleVars

\* executeTransfer goes on: the wallet prompts and the SDK calls of the flow
\* return
TransferStep ==
  /\ \/ FlowAdvances
     \/ \E hasMsg \in BOOLEAN : FlowExtracted(hasMsg, "stored")
     \/ FlowThrows
  /\ UNCHANGED idleVars

\* the clock and the elapsed-time interval; the time the transfer flow takes
\* is not followed
ClockStep ==
  /\ flow = "none"
  /\ \E t \in Instants : Tick(t)
  /\ UNCHANGED idleVars

\* the refetch interval and the sleep before a retry
PollTimerStep == (PollTimerFires \/ RetryFires) /\ UNCHANGED idleVars

\* getMessageById returns or rejects
QueryStep ==
  /\ \/ \E metaStatus \in SessionStatuses : AttemptSucceeds(metaStatus)
     \/ \E error \in SessionErrors : AttemptFails(error)
     \/ \E ok \in BOOLEAN, more \in BOOLEAN : OrphanSettles(ok, more)
  /\ UNCHANGED idleVars

LiveNext == UserStep \/ TransferStep \/ ClockStep \/ PollTimerStep \/ QueryStep
(***************************************************************************)
(* Specifications                                                          *)
(***************************************************************************)
Init ==
  /\ ExecInit /\ FormInit /\ SessionInit /\ TrackInit /\ HistInit
  /\ ReconInit /\ PoolInit /\ TimeoutInit /\ BucketInit
  /\ ChainsInit /\ BuildInit /\ ResimInit

\* the EVM transfer flow on its own
SpecExec ==
  Init /\ [][ExecNext /\ UNCHANGED <<formVars, sessionVars, trackVars, histVars, auxVars>>]_vars

\* the bridge form with its fee estimate
SpecForm == Init /\ [][FormNext /\ UNCHANGED <<execVars, auxVars>>]_vars

\* the session with the status tracker
SpecTrack == Init /\ [][TrackNext /\ UNCHANGED <<execVars, auxVars>>]_vars

\* the status query of one message
SpecQuery == Init /\ [][QueryNext /\ UNCHANGED <<execVars, auxVars>>]_vars

\* the history store
SpecHist == Init /\ [][HistNext /\ UNCHANGED <<execVars, auxVars>>]_vars

\* the history store while it fills up
SpecFill == Init /\ [][FillNext /\ UNCHANGED <<execVars, auxVars>>]_vars


\* the background reconciliation of the history
SpecRecon == Init /\ [][ReconNext /\ UNCHANGED <<execVars, poolVars, timeoutVars, bucketVars, lateVars>>]_vars

\* the bridge form with the pool lookup of its lane
SpecPool == Init /\ [][PoolNext /\ UNCHANGED <<execVars, reconVars, timeoutVars, bucketVars, lateVars>>]_vars

\* the session of the form with the transfer flow it started
SpecSession ==
  Init /\ [][SessionNext /\ UNCHANGED <<reconVars, poolVars, timeoutVars, bucketVars,
                                          chainVars, buildVars>>]_vars

\* calls of withTimeout, one after the other
SpecTimeout ==
  Init /\ [][TimeoutNext /\ UNCHANGED <<execVars, formVars, sessionVars, trackVars,
                                          histVars, reconVars, poolVars,
                                          bucketVars, lateVars>>]_vars

\* the rate limit display of a bucket
SpecBucket ==
  Init /\ [][BucketNext /\ UNCHANGED <<execVars, formVars, sessionVars, trackVars,
                                         histVars, reconVars, poolVars,
                                         timeoutVars, lateVars>>]_vars

\* the variables of the session, the history and the earlier components
coreVars ==
  <<execVars, formVars, sessionVars, trackVars, histVars, reconVars, poolVars,
    timeoutVars, bucketVars>>

\* the chain provider from mount to unmount
SpecChains == Init /\ [][ChainsNext /\ UNCHANGED <<coreVars, buildVars, resimVars>>]_vars

\* calls of buildCCIPMessage, one after the other
SpecBuild == Init /\ [][BuildNext /\ UNCHANGED <<coreVars, chainVars, resimVars>>]_vars

\* the session with its tracker, where timers fire and the calls to the
\* wallet and the SDK return; the user is not obliged to act
SpecLive ==
  /\ Init
  /\ [][LiveNext]_vars
  /\ WF_vars(TransferStep)
  /\ WF_vars(ClockStep)
  /\ WF_vars(PollTimerStep)
  /\ WF_vars(QueryStep)
(***************************************************************************)
(* Properties of the EVM transfer flow                                     *)
(***************************************************************************)
Range(seq) == {seq[k] : k \in 1..Len(seq)}

\* the name the SDK decoded for a simulation error ("none": no name)
DecodedName(error) ==
  IF error.parsed \in {HexShape(n) : n \in ErrorNames} THEN error.parsed[1].vname
  ELSE IF error.parsed \in {FullShape(n) : n \in ErrorNames} THEN error.parsed[2].klast
  ELSE "none"

PreflightFailed == eSimError.kind \in {"undefined", "parsed"}

\* C1: when the pre-flight simulation of the send transaction fails, the
\* flow has thrown, the send transaction has not been handed to the wallet,
\* none of the tx-hash, 'confirming', 'tracking', message-id callbacks has
\* fired, and a revert decoded to a known error name is thrown as the
\* sentence mapped to that name.
C1_PreflightFailureAborts ==
  PreflightFailed =>
    /\ ePc = "thrown"
    /\ eN \notin Range(eSubmitted)
    /\ Range(eCallbacks) \cap {"txhash", "confirming", "tracking", "msgid"} = {}
    /\ DecodedName(eSimError) \in KnownErrorNames
         => eError = CCIP_ERROR_MESSAGES(DecodedName(eSimError))

C1_Witness ==
  /\ PreflightFailed
  /\ DecodedName(eSimError) = "RateLimitReached"
  /\ eReceipts = approvalTxs(eN) /\ eN = 3
  /\ eError = CCIP_ERROR_MESSAGES("RateLimitReached")

\* C2: submissions follow the list order, one at a time: a transaction is
\* submitted only when the receipts of all transactions before it have been
\* obtained, the send transaction is simulated only after the receipts of
\* all approvals, and at most one submission is outstanding.
C2_SequentialApprovals ==
  /\ Cardinality(eOutstanding) <= 1
  /\ \A k \in 1..Len(eSubmitted) :
        /\ eSubmitted[k] = k
        /\ (k < eN => k \in approvalTxs(eN))
        /\ \A j \in 1..(k - 1) : j \in eReceipts
  /\ eSimulated => approvalTxs(eN) \subseteq eReceipts

C2_Witness ==
  /\ ePc = "sendSend" /\ eN = 3
  /\ eSubmitted = <<1, 2, 3>> /\ eReceipts = {1, 2} /\ eOutstanding = {3}


(***************************************************************************)
(* Properties of the fee estimate / submit path                            *)
(***************************************************************************)
\* C3: the message handed to executeTransfer (and from there to
\* generateUnsignedSendMessage) is the message the fee handed along with it
\* was quoted for.
C3_SentFeeQuotedForSentMessage ==
  sent.message # NullMessage => sent.fee.quotedFor = sent.message

(***************************************************************************)
(* Properties of the status tracker                                        *)
(***************************************************************************)
\* C4: once a snapshot whose simplified state is SUCCESS or FAILED has been
\* obtained for the current message identifier, no step that keeps the
\* identifier calls getMessageById, and isFinal is true after every such step.
C4_NoQueryAfterTerminal ==
  [][(terminalSeen /\ messageId' = messageId) => (lastCall' = 0 /\ isFinal')]_vars

\* C5: while a message is tracked and polling was not stopped manually,
\* isTimedOut is true whenever the elapsed time has reached the polling
\* timeout; once true it stays true and no getMessageById call is made while
\* the identifier is kept; and the step that sets it changes neither the
\* reported state nor isFinal.
C5_TimeoutHaltsPolling ==
  [][/\ (/\ messageId' # 0
         /\ ~manualStop'
         /\ startTime' # -1
         /\ now' - startTime' >= 35 * 60 * 1000) => isTimedOut'
     /\ (isTimedOut /\ messageId' = messageId) => (isTimedOut' /\ lastCall' = 0)
     /\ (~isTimedOut /\ isTimedOut') => (state' = state /\ isFinal' = isFinal)]_vars

\* the simplified state the specification gives for each SDK status
C6_Table(status) ==
  CASE status \in {"Sent", "SourceFinalized"} -> "SENT"
    [] status \in {"Committed", "Blessed", "Verifying", "Verified"} -> "COMMITTED"
    [] status = "Success" -> "SUCCESS"
    [] status = "Failed" -> "FAILED"
    [] OTHER -> "UNKNOWN"

\* C6: the state reported for a snapshot is the table's value for the SDK
\* status of the message: Sent, SourceFinalized -> SENT; Committed, Blessed,
\* Verifying, Verified -> COMMITTED; Success -> SUCCESS; Failed -> FAILED;
\* anything else, Unknown and an absent status included -> UNKNOWN.
C6_StatusMapping ==
  qData # NoData => state = C6_Table(qData.metaStatus)

C6_Witness ==
  /\ qData # NoData
  /\ qData.metaStatus = "Verified"
  /\ state = "COMMITTED"
  /\ lastData.metaStatus = "Verified"

\* an attempt of the status query has just failed
AttemptFailed ==
  /\ qFetch.phase = "fetching"
  /\ qFetch'.failureCount = qFetch.failureCount + 1

\* C7: an attempt failing with the not-found error after fewer than 20 failed
\* attempts of the same poll is followed by a retry and leaves the exposed
\* error as it was; the failure after 20 failed attempts (the 21st) exposes
\* the error; whether the error is also transient makes no difference.
C7_NotFoundBudget ==
  [][(AttemptFailed /\ qFetch'.lastError.kind = "notFound")
       => IF qFetch.failureCount < 20
          THEN qFetch'.phase = "backoff" /\ qError' = qError
          ELSE qFetch'.phase = "idle" /\ qError' = qFetch'.lastError]_vars

C7_Witness ==
  /\ qFetch.phase = "idle"
  /\ qFetch.failureCount = 21
  /\ qError.kind = "notFound"
  /\ qError.isTransient

\* C8: an attempt failing with an error other than not-found is followed by
\* a retry exactly while fewer than 10 attempts have failed for a transient
\* SDK error, fewer than 3 for any other error, and otherwise exposes the
\* error; the sleep before the retry is the error's hint when it has one,
\* otherwise min(1000 * 2^attempt, 30000).
C8_RetryBudgetsAndDelay ==
  [][(AttemptFailed /\ qFetch'.lastError.kind # "notFound")
       => LET error == qFetch'.lastError
              attempt == qFetch.failureCount
              budget == IF error.isCCIP /\ error.isTransient THEN 10 ELSE 3
          IN  IF attempt < budget
              THEN /\ qFetch'.phase = "backoff"
                   /\ qError' = qError
                   /\ qFetch'.wait =
                        IF error.hint # NoHint THEN error.hint
                        ELSE Min(1000 * 2 ^ attempt, 30000)
              ELSE /\ qFetch'.phase = "idle"
                   /\ qError' = error]_vars

C8_Witness ==
  /\ qFetch.phase = "backoff"
  /\ qFetch.failureCount = 10
  /\ qFetch.lastError = QueryError("other", TRUE, TRUE, NoHint)
  /\ qFetch.wait = 30000

\* C9: after stopPolling no step that keeps the message identifier calls
\* getMessageById, and if isTimedOut was false it is still false after the
\* step.
C9_ManualStopHaltsPolling ==
  [][(manualStop /\ messageId' = messageId)
       => (lastCall' = 0 /\ (~isTimedOut => ~isTimedOut'))]_vars

(***************************************************************************)
(* Properties of the history store                                         *)
(***************************************************************************)
\* no two records of the list have the same message identifier
UniqueIds(transactions) ==
  \A i, j \in 1..Len(transactions) :
    transactions[i].messageId = transactions[j].messageId => i = j

EarliestId(transactions) ==
  CHOOSE id \in IdsOf(transactions) : \A other \in IdsOf(transactions) : id <= other

\* a record with a new identifier has just been added to a full list
AddedToFull ==
  /\ lastOp'.op = "add"
  /\ lastOp'.id \notin IdsOf(stored)
  /\ Len(stored) = 50

\* C11 as stated: the list never holds more than 50 records, and after an
\* add of a new identifier to a full list the new record is stored and the
\* only record dropped is the one inserted earliest.
C11_AsStated ==
  [][/\ Len(stored') <= 50
     /\ AddedToFull =>
          /\ lastOp'.id \in IdsOf(stored')
          /\ IdsOf(stored) \ IdsOf(stored') = {EarliestId(stored)}]_vars

\* C11, amended: the list never holds more than 50 records, and an add of a
\* new identifier to a full list either stores the new record in front of the
\* 49 newest ones (dropping only the record inserted earliest), or after a
\* quota error stores the new record in front of the 24 newest ones, or,
\* when nothing can be written, leaves the list as it was.
C11_CapEvictsOldest ==
  [][/\ Len(stored') <= 50
     /\ AddedToFull =>
          \/ /\ Len(stored') = 50
             /\ stored'[1].messageId = lastOp'.id
             /\ SubSeq(stored', 2, 50) = SubSeq(stored, 1, 49)
          \/ /\ Len(stored') = 25
             /\ stored'[1].messageId = lastOp'.id
             /\ SubSeq(stored', 2, 25) = SubSeq(stored, 1, 24)
          \/ stored' = stored]_vars

C11_Witness ==
  /\ lastOp = [op |-> "add", id |-> 51]
  /\ Len(stored) = 50
  /\ stored[1].messageId = 51
  /\ stored[50].messageId = 2

\* the pending record handled by this step, when the query for it answered
HandledAnswered ==
  /\ rPc = "polling"
  /\ rLast'.outcome = "answered"
  /\ (rIdx' # rIdx \/ rPc' # rPc)
  /\ findIndex(stored, rPending[rIdx]) # 0
  /\ stored[findIndex(stored, rPending[rIdx])].status = "pending"

\* C12: when the status query for a pending record answers, the record's
\* status becomes success or failed if the message's status is Success or
\* Failed, and otherwise the stored list is left exactly as it was.
C12_ReconcileTerminalOnly ==
  [][HandledAnswered =>
       LET id == rPending[rIdx]
           index == findIndex(stored, id)
       IN  CASE msgStatus[id] = "Success" ->
                  /\ findIndex(stored', id) = index
                  /\ stored'[index].status = "success"
             [] msgStatus[id] = "Failed" ->
                  /\ findIndex(stored', id) = index
                  /\ stored'[index].status = "failed"
             [] OTHER -> stored' = stored]_vars

\* C13: a pending record whose query throws, or whose network has no
\* client, is followed by the next pending record the cycle read; after the
\* last one the cycle ends normally; the failure is never thrown out of the
\* cycle.
C13_FailureDoesNotAbortCycle ==
  [][(/\ rPc = "polling"
      /\ (rIdx' # rIdx \/ rPc' # rPc)
      /\ rLast'.outcome \in {"noChain", "throws"}) =>
       /\ rPc' # "rejected"
       /\ stored' = stored
       /\ IF rIdx < Len(rPending)
          THEN rPc' = "polling" /\ rIdx' = rIdx + 1 /\ rPending' = rPending
          ELSE rPc' = "idle"]_vars

C13_Witness ==
  /\ rFailed # {}
  /\ rLast.outcome = "answered"
  /\ rLast.id \notin rFailed
  /\ rLast.status = "Success"
  /\ findIndex(stored, rLast.id) # 0
  /\ stored[findIndex(stored, rLast.id)].status = "success"

\* C14: submission is enabled only if the pool lookup of the selected lane
\* found a remote configuration.
C14_SubmitOnlyOnSupportedLane ==
  canSubmit =>
    /\ ~poolInfo.null
    /\ poolInfo.lane = sourceNetwork
    /\ poolInfo.remotes

\* the callbacks of a flow with n unsigned transactions that runs to its
\* end with a message extracted
ExpectedCallbacks(n) ==
  [k \in 1..(IF n = 0 THEN 0 ELSE n - 1) |-> "approving"]
    \o <<"sending", "txhash", "confirming", "tracking", "msgid">>

IsPrefix(s, t) == Len(s) <= Len(t) /\ s = SubSeq(t, 1, Len(s))

\* C15: the callbacks fired so far are the beginning of: 'approving' once
\* per approval transaction (none in the Solana flow), 'sending', the
\* tx-hash, 'confirming', 'tracking', the message-id; a flow that has
\* returned has fired all of them up to 'tracking', and the message-id at
\* most once after it.
C15_CallbackOrder ==
  /\ IsPrefix(eCallbacks, ExpectedCallbacks(eN))
  /\ ePc \in {"solGenerate", "solBlockhash", "solSend", "solConfirm", "solGetTx",
              "solExtract", "solDone", "solThrown"}
       => "approving" \notin Range(eCallbacks)
  /\ ePc \in {"done", "solDone"}
       => Len(eCallbacks) >= Len(ExpectedCallbacks(eN)) - 1

C15_Witness ==
  /\ ePc = "done"
  /\ eCallbacks = <<"approving", "approving", "sending", "txhash", "confirming",
                    "tracking", "msgid">>

C15_WitnessSolana ==
  /\ ePc = "solDone"
  /\ eCallbacks = <<"sending", "txhash", "confirming", "tracking">>

\* C16: the stage is 'approving' only while the EVM flow is processing an
\* approval transaction.
C16_ApprovingOnlyDuringApproval ==
  bridgeState = "approving" => ePc \in {"approveSend", "approveWait"}

\* C18: while the stage is approving, sending or confirming the session is
\* not reset to idle.
C18_NoResetMidFlight ==
  [][(bridgeState \in {"approving", "sending", "confirming"})
       => (bridgeState' # "idle")]_vars

\* C17: with no message identifier (before the first message, after
\* handleSubmit or handleReset cleared it) the tracker reports UNKNOWN and
\* isFinal false, whatever was obtained for an earlier identifier.
C17_NoStaleStatus ==
  messageId = 0 => (state = "UNKNOWN" /\ ~isFinal)

\* C19: withTimeout never rejects, and what it resolved to is: when the
\* timeout ran first, timedOut true with an error and no data, whatever the
\* wrapped promise does afterwards; when the wrapped promise fulfilled
\* first, its value with timedOut false and no error; when it rejected
\* first, timedOut false with an error and no data.
C19_ThreeOutcomes ==
  /\ wPc # "rejected"
  /\ wPc = "returned" =>
       CASE wTimer = "fired" ->
              /\ wResult.timedOut
              /\ wResult.error.kind = "Error"
              /\ wResult.data = "absent"
         [] wTimer = "cleared" /\ wPromise.state = "fulfilled" ->
              /\ ~wResult.timedOut
              /\ wResult.error = AbsentError
              /\ wResult.data = wPromise.value
         [] wTimer = "cleared" /\ wPromise.state = "rejected" ->
              /\ ~wResult.timedOut
              /\ wResult.error.kind = "Error"
              /\ wResult.data = "absent"
         [] OTHER -> FALSE

C19_Witness ==
  /\ wPc = "returned"
  /\ wTimer = "fired"
  /\ wPromise = Fulfilled("data")
  /\ wResult = TimedOutResult("Remote pool lookup", POOL_INFO)

\* C20: the percentage of an enabled bucket is 100 when tokens equals a
\* capacity that is not 0, 0 when tokens is 0, and between 0 and 100 in
\* every case.
C20_PercentageClamped ==
  ~formatted.null =>
    /\ (bucket.tokens = bucket.capacity /\ bucket.capacity > 0)
         => formatted.percentage = 100
    /\ bucket.tokens = 0 => formatted.percentage = 0
    /\ formatted.percentage \in 0..100

(***************************************************************************)
(* Properties of the polling cadence                                       *)
(***************************************************************************)
\* C21: while the message identifier is kept, the number of counted polls
\* never goes down and a polling delay that is computed is
\* min(initialDelay + pollCount * delayIncrement, maxDelay) for the count of
\* that moment; so a later delay is never smaller than an earlier one, and a
\* delay that follows a delay of 30 s is 30 s.
C21_BackoffMonotone ==
  [][(messageId' = messageId)
       => /\ pollCount' >= pollCount
          /\ (refetchDelay' > 0)
               => \/ refetchDelay' = refetchDelay
                  \/ refetchDelay' = Min(10000 + pollCount' * 5000, 30000)
          /\ (refetchDelay > 0 /\ refetchDelay' > 0)
               => /\ refetchDelay' >= refetchDelay
                  /\ (refetchDelay = 30000) => (refetchDelay' = 30000)]_vars

C21_Witness ==
  /\ messageId # 0
  /\ pollCount = MaxPolls
  /\ refetchDelay = maxDelay
  /\ qFetch.phase = "idle"

\* C22: the delay in force after the k-th counted poll of a message, while
\* polling goes on, is min(10 s + (k-1) * 5 s, 30 s): 10 s after the first
\* poll, then 15 s, 20 s, 25 s, 30 s, 30 s.
C22_CadenceStartsAtBase ==
  [][(/\ qFetch.phase = "fetching"
      /\ pollCount' = pollCount + 1
      /\ refetchDelay' > 0)
       => (refetchDelay' = Min(10000 + (pollCount' - 1) * 5000, 30000))]_vars

(***************************************************************************)
(* Properties of the chain provider                                        *)
(***************************************************************************)
\* C23: for each network key at most one chain instance is ever built,
\* getChain never returns two different instances for a key, and once the
\* provider is unmounted every instance built that has a destroy function
\* has been destroyed.
C23_OneClientPerKey ==
  /\ \A c1 \in constructed, c2 \in constructed : (c1.key = c2.key) => (c1 = c2)
  /\ \A c1 \in returned, c2 \in returned : (c1.key = c2.key) => (c1 = c2)
  /\ (cPhase = "unmounted")
       => \A c \in constructed : c.destroy => (c \in destroyed)

(***************************************************************************)
(* Properties of buildCCIPMessage                                          *)
(***************************************************************************)
\* C24: two calls with equal arguments come to field-equal results; a call
\* with an amount that is not negative returns a message with the given
\* receiver, token and amount, data '0x' unless given and gas limit 0 unless
\* given; a call with a negative amount ends in an error and returns no
\* message.
C24_BuilderFailsOnlyOnNegativeAmount ==
  (bResult # NoBuild) =>
    /\ (bPrevResult # NoBuild /\ bPrevArgs = bArgs) => (bResult = bPrevResult)
    /\ (bArgs.amount >= 0) =>
         /\ bResult.kind = "message"
         /\ bResult.receiver = bArgs.receiver
         /\ bResult.tokenAmounts =
              <<[token |-> bArgs.tokenAddress, amount |-> bArgs.amount]>>
         /\ bResult.data = (IF bArgs.data.given THEN bArgs.data.value ELSE "0x")
         /\ bResult.extraArgs.gasLimit =
              (IF bArgs.gasLimit.given THEN bArgs.gasLimit.value ELSE 0)
    /\ (bArgs.amount < 0) => (bResult.kind = "error")

(***************************************************************************)
(* Properties of a reverted send transaction                               *)
(***************************************************************************)
\* the receipt of the send transaction of the current submission said
\* 'reverted'
SendReverted == ePc = "resimulate" \/ eResim # SimNone

C26_NoTimeoutAfterTerminal ==
  [][/\ (terminalSeen /\ messageId' = messageId /\ ~isTimedOut) => ~isTimedOut'
     /\ ~(isTimedOut' /\ isFinal')]_vars

(***************************************************************************)
(* Progress of a tracked session                                           *)
(***************************************************************************)
\* C27: when timers fire and the calls to the wallet and the SDK return, a
\* session that is in the 'tracking' stage (followed from the start of the
\* clock) eventually is in the success or the error stage or has isTimedOut
\* set, unless the user resets it.
C27_TrackingEnds ==
  (bridgeState = "tracking" /\ now = 0)
    ~> (bridgeState \in {"success", "error", "idle"} \/ isTimedOut)

(***************************************************************************)
(* Properties of the history under concurrent use                          *)
(***************************************************************************)
\* C28: a record whose status is success or failed is not pending after any
\* step that keeps it in the history.
C28_StatusMonotonic ==
  [][\A i \in 1..Len(stored), j \in 1..Len(stored') :
       (/\ stored[i].messageId = stored'[j].messageId
        /\ stored[i].status \in {"success", "failed"})
         => (stored'[j].status # "pending")]_vars

C30_OneFlowInFlight ==
  [][/\ (flow = "none" /\ flow' # "none") => (bridgeState = "idle")
     /\ (flow' # "none") => (bridgeState' # "idle")]_vars

====
